---------------------------- MODULE Spec2Model ----------------------------
(***************************************************************************)
(* Model of the download engine of aw_agents                              *)
(* (src/aw_agents/agents/download/download_core.py).                      *)
(*                                                                         *)
(* Strings are sequences of atoms.  An atom is a TLA+ string that stands   *)
(* for one special character (".", "/", "_", " ", a double quote, ...) or  *)
(* for a run of letters and digits with no inner structure ("report",      *)
(* "pdf").  A dot is always an atom of its own, except inside a host name  *)
(* ("example.com"), which is one atom.  Python's None is the value None.   *)
(***************************************************************************)
EXTENDS Integers, Sequences, FiniteSets, TLC

VARIABLES
    pf,         \* a call of a pure function: its arguments and its result
    call,       \* the engine call in progress and the engine's configuration
    pc,         \* the position of the engine in download / download_multiple
    item,       \* download_multiple: the index of the URL being downloaded
    dl_url,     \* download: the input URL, normalised
    final_url,  \* download: the URL the content is fetched from
    warnings,   \* download: the warnings collected so far
    dl_filename,\* download: the name of the file to write
    pre_name,   \* download: the name before the extension was re-resolved
    dl_response,\* download: the response in hand (probe, then final GET)
    first_chunk,\* download: the first chunk of the final response's body
    exc,        \* the exception in flight, NoExc if none
    results,    \* the results returned so far (one per finished URL)
    reqs,       \* the HTTP requests the current download issued, in order
    opened,     \* the paths the current download opened for writing
    dir_exists, \* whether the target directory exists
    files,      \* the files on disk
    tool,       \* the tool call the agent is executing, NoTool if none
    reply       \* what execute_tool returned or raised, NoReply so far

vars == <<pf, call, pc, item, dl_url, final_url, warnings, dl_filename, pre_name,
          dl_response, first_chunk, exc, results, reqs, opened, dir_exists, files,
          tool, reply>>

agent == <<tool, reply>>

engine == <<call, pc, item, dl_url, final_url, warnings, dl_filename, pre_name,
            dl_response, first_chunk, exc, results, reqs, opened, dir_exists, files>>

(***************************************************************************)
(* Python values and string helpers                                        *)
(***************************************************************************)

\* Python's None, where a string is expected (no string holds this atom).
None == <<"<None>">>

\* Python truthiness of an Optional[str]: neither None nor ''.
Truthy(s) == s # None /\ s # <<>>

\* The double-quote character.
Q == "\""

\* str.lower(), atom by atom.
LowerAtom(a) ==
    CASE a = "PDF" -> "pdf"
      [] a = "TMP" -> "tmp"
      [] a = "Bin" -> "bin"
      [] a = "HTML" -> "html"
      [] a = "Download" -> "download"
      [] a = "Text/HTML" -> "text/html"
      [] a = "MyFile" -> "myfile"
      [] a = "My" -> "my"
      [] a = "File" -> "file"
      [] OTHER -> a

Lower(s) == [i \in DOMAIN s |-> LowerAtom(s[i])]

\* str.startswith / str.endswith
StartsWith(s, p) == Len(p) <= Len(s) /\ SubSeq(s, 1, Len(p)) = p

EndsWith(s, p) == Len(p) <= Len(s) /\ SubSeq(s, Len(s) - Len(p) + 1, Len(s)) = p

\* The positions at which sub occurs in s.
Occurrences(s, sub) ==
    {i \in 1..(Len(s) - Len(sub) + 1) : SubSeq(s, i, i + Len(sub) - 1) = sub}

\* `sub in s`
Contains(s, sub) == sub = <<>> \/ Occurrences(s, sub) # {}

Min(S) == CHOOSE x \in S : \A y \in S : x <= y

Max(S) == CHOOSE x \in S : \A y \in S : x >= y

\* str.replace(old, new): every non-overlapping occurrence, left to right.
RECURSIVE Replace(_, _, _)
Replace(s, old, new) ==
    IF old = <<>> \/ Occurrences(s, old) = {}
    THEN s
    ELSE LET i == Min(Occurrences(s, old))
         IN  SubSeq(s, 1, i - 1) \o new
               \o Replace(SubSeq(s, i + Len(old), Len(s)), old, new)

(***************************************************************************)
(* pathlib.PurePath: name, suffix, stem                                    *)
(***************************************************************************)

\* s without its trailing "/" atoms.
RECURSIVE StripTrailingSlashes(_)
StripTrailingSlashes(s) ==
    IF s # <<>> /\ s[Len(s)] = "/"
    THEN StripTrailingSlashes(SubSeq(s, 1, Len(s) - 1))
    ELSE s

\* Path(p).name: the final component.
PathName(p) ==
    LET t == StripTrailingSlashes(p)
        slashes == {i \in DOMAIN t : t[i] = "/"}
    IN  IF slashes = {} THEN t ELSE SubSeq(t, Max(slashes) + 1, Len(t))

\* The index of the dot that starts the suffix of name, 0 if there is none
\* (the name's last dot, neither its first nor its last character).
SuffixDot(name) ==
    LET dots == {i \in DOMAIN name : name[i] = "."}
    IN  IF dots = {} THEN 0
        ELSE IF 1 < Max(dots) /\ Max(dots) < Len(name) THEN Max(dots) ELSE 0

\* Path(p).suffix
PathSuffix(p) ==
    LET name == PathName(p)
        i == SuffixDot(name)
    IN  IF i = 0 THEN <<>> ELSE SubSeq(name, i, Len(name))

\* Path(p).stem
PathStem(p) ==
    LET name == PathName(p)
        i == SuffixDot(name)
    IN  IF i = 0 THEN name ELSE SubSeq(name, 1, i - 1)

\* urllib.parse.urlparse(url).path: a URL is <<scheme, host, path..., "?", query...>>.
UrlPath(url) ==
    LET rest == IF Len(url) >= 2 THEN SubSeq(url, 3, Len(url)) ELSE <<>>
        stops == {i \in DOMAIN rest : rest[i] \in {"?", "#"}}
    IN  IF stops = {} THEN rest ELSE SubSeq(rest, 1, Min(stops) - 1)


(***************************************************************************)
(* HTTP responses (requests.Response), as the engine reads them            *)
(***************************************************************************)

\* A body: its size in bytes, its first bytes (the content sample) and the
\* anchor and button elements an HTML parser finds in it.
EmptyBody == [size |-> 0, head |-> <<>>, elems |-> <<>>]

\* `response is None`
NoResponse == [status |-> 0, ctype |-> <<>>, cd |-> <<>>, body |-> EmptyBody]

\* bool(response): requests.Response.__bool__ is Response.ok, false for an
\* error status; `if response:` is how the engine tests for a response.
RespTruthy(r) == r # NoResponse /\ r.status < 400

(***************************************************************************)
(* Module-level helpers of download_core.py                                *)
(***************************************************************************)

PLACEHOLDER_EXTENSIONS ==
    {<<".", "bin">>, <<".", "tmp">>, <<".", "dat">>, <<".", "download">>}

\* Faulty variant of _normalize_extension: the placeholder test (lines 47-48) left out.
NormalizeExtensionKeepingPlaceholders(extension) ==
    IF ~Truthy(extension) THEN None
    ELSE IF StartsWith(extension, <<".">>) THEN extension
         ELSE <<".">> \o extension

\* _normalize_extension: None for an unusable extension, a leading dot added.
NormalizeExtension(extension) ==
    IF ~Truthy(extension) THEN None
    ELSE LET e == IF StartsWith(extension, <<".">>) THEN extension
                  ELSE <<".">> \o extension
         IN  IF Lower(e) \in PLACEHOLDER_EXTENSIONS THEN None ELSE e

\* The characters re.sub(r'[<>:"/\\|?*]', '_', name) replaces.
InvalidChars == {"<", ">", ":", Q, "/", "\\", "|", "?", "*"}

\* The characters of the class [\s_].
IsSpaceOrUnderscore(a) == a \in {" ", "\t", "_"}

\* re.sub(r'[\s_]+', '_', name): every run of whitespace/underscores becomes "_".
RECURSIVE CollapseRuns(_)
CollapseRuns(s) ==
    IF s = <<>> THEN <<>>
    ELSE IF IsSpaceOrUnderscore(s[1])
         THEN IF Len(s) >= 2 /\ IsSpaceOrUnderscore(s[2])
              THEN CollapseRuns(Tail(s))
              ELSE <<"_">> \o CollapseRuns(Tail(s))
         ELSE <<s[1]>> \o CollapseRuns(Tail(s))

\* str.strip('_')
RECURSIVE StripUnderscores(_)
StripUnderscores(s) ==
    IF s # <<>> /\ s[1] = "_" THEN StripUnderscores(Tail(s))
    ELSE IF s # <<>> /\ s[Len(s)] = "_"
         THEN StripUnderscores(SubSeq(s, 1, Len(s) - 1))
         ELSE s

\* _sanitize_filename(name, max_length)
SanitizeFilename(name, max_length) ==
    LET replaced == [i \in DOMAIN name |->
                        IF name[i] \in InvalidChars THEN "_" ELSE name[i]]
        stripped == StripUnderscores(CollapseRuns(replaced))
    IN  IF Len(stripped) > max_length THEN SubSeq(stripped, 1, max_length)
        ELSE stripped

\* The default of _sanitize_filename's max_length.
DefaultMaxLength == 200

\* content_type.split(';')[0].strip()
MimeOf(content_type) ==
    LET semis == {i \in DOMAIN content_type : content_type[i] = ";"}
        first == IF semis = {} THEN content_type
                 ELSE SubSeq(content_type, 1, Min(semis) - 1)
    IN  SelectSeq(first, LAMBDA a : a # " ")

\* mimetypes.guess_extension (it lower-cases the type), '' for an unknown type.
GuessExtension(mime) ==
    LET m == Lower(mime)
    IN  CASE m = <<"application/pdf">> -> <<".", "pdf">>
          [] m = <<"text/html">> -> <<".", "html">>
          [] m = <<"text/plain">> -> <<".", "txt">>
          [] m = <<"application/json">> -> <<".", "json">>
          [] m = <<"application/zip">> -> <<".", "zip">>
          [] m = <<"application/octet-stream">> -> <<".", "bin">>
          [] OTHER -> <<>>

\* _infer_extension_from_content_type
InferExtensionFromContentType(content_type) == GuessExtension(MimeOf(content_type))

\* re.search(r'filename="?([^"]+)"?', content_disp).group(1), None without a
\* match: after the leftmost "filename=" that a match can start at, an
\* optional quote, then every character up to the next quote or the end.
CDFilename(h) ==
    LET start(i) == IF i + 1 <= Len(h) /\ h[i + 1] = Q THEN i + 2 ELSE i + 1
        ok(i) == h[i] = "filename=" /\ start(i) <= Len(h) /\ h[start(i)] # Q
        hits == {i \in DOMAIN h : ok(i)}
    IN  IF hits = {} THEN None
        ELSE LET s == start(Min(hits))
                 quotes == {j \in s..Len(h) : h[j] = Q}
                 e == IF quotes = {} THEN Len(h) ELSE Min(quotes) - 1
             IN  SubSeq(h, s, e)


(***************************************************************************)
(* Warnings: the strings the engine appends to a result                    *)
(***************************************************************************)

Warning(kind, url, ctype, from, to) ==
    [kind |-> kind, url |-> url, ctype |-> ctype, from |-> from, to |-> to]

\* A warning of None.
NoWarning == Warning("None", <<>>, <<>>, <<>>, <<>>)

(***************************************************************************)
(* The extension router (aw.routing.ExtensionRouter, an external package): *)
(* the explicit hint first, then a URL suffix of the priority set, then    *)
(* the byte signature of the content sample; None when nothing matches.    *)
(***************************************************************************)

PriorityExtensions == {<<".", "pdf">>, <<".", "md">>}

ExtensionRouter(url, content, content_type, explicit_extension) ==
    IF Truthy(explicit_extension) THEN explicit_extension
    ELSE IF Lower(PathSuffix(UrlPath(url))) \in PriorityExtensions
         THEN PathSuffix(UrlPath(url))
         ELSE IF content = <<"%PDF">> THEN <<".", "pdf">>
              ELSE IF Lower(MimeOf(content_type)) = <<"application/octet-stream">>
                   THEN <<".", "bin">>
                   ELSE None

(***************************************************************************)
(* DownloadEngine: filename generation.  router is self.extension_router:  *)
(* TRUE when aw.routing could be imported, FALSE when the engine fell back *)
(* to no router.                                                           *)
(***************************************************************************)

\* The filename of the response's Content-Disposition header, None if the
\* response is falsy or names no file (lines 325-332).
ContentDispositionName(response) ==
    IF RespTruthy(response) /\ Contains(response.cd, <<"filename=">>)
    THEN CDFilename(response.cd)
    ELSE None

\* The stem _generate_filename builds when no header names the file
\* (lines 334-342).
FilenameStem(url, context) ==
    LET fromContext == IF Truthy(context)
                       THEN SanitizeFilename(context, DefaultMaxLength)
                       ELSE None
        urlStem == PathStem(UrlPath(url))
    IN  IF Truthy(fromContext) THEN fromContext
        ELSE SanitizeFilename(IF urlStem # <<>> THEN urlStem ELSE <<"download">>,
                              DefaultMaxLength)

\* The extension _generate_filename resolves (lines 344-378).
ResolveExtension(router, url, response, explicit_extension) ==
    LET content_type == IF RespTruthy(response) THEN response.ctype ELSE <<>>
        content == IF RespTruthy(response) THEN response.body.head ELSE <<>>
        routed == IF router
                  THEN NormalizeExtension(
                           ExtensionRouter(url, content, content_type,
                                           explicit_extension))
                  ELSE None
        typed == IF ~Truthy(routed) /\ RespTruthy(response)
                 THEN NormalizeExtension(
                          InferExtensionFromContentType(response.ctype))
                 ELSE routed
    IN  IF Truthy(typed) THEN typed
        ELSE LET url_ext == NormalizeExtension(PathSuffix(UrlPath(url)))
             IN  IF Truthy(url_ext) THEN url_ext ELSE <<".", "bin">>

\* DownloadEngine._generate_filename
GenerateFilename(router, url, context, response, explicit_extension) ==
    IF ContentDispositionName(response) # None
    THEN ContentDispositionName(response)
    ELSE LET filename == FilenameStem(url, context)
             extension == ResolveExtension(router, url, response,
                                           explicit_extension)
         IN  IF ~EndsWith(filename, extension) THEN filename \o extension
             ELSE filename

\* DownloadEngine._detect_extension_from_response (explicit_extension is
\* never passed: it keeps its default None).
DetectExtensionFromResponse(router, url, response, content_sample) ==
    IF ~RespTruthy(response) THEN None
    ELSE LET routed == IF router
                       THEN NormalizeExtension(
                                ExtensionRouter(url, content_sample,
                                                response.ctype, None))
                       ELSE None
             typed == IF ~Truthy(routed) /\ response.ctype # <<>>
                      THEN NormalizeExtension(
                               InferExtensionFromContentType(response.ctype))
                      ELSE routed
         IN  IF Truthy(typed) THEN typed
             ELSE NormalizeExtension(PathSuffix(UrlPath(url)))

\* Faulty variant of can_replace: only a missing or placeholder extension is replaced.
CanReplaceOnlyPlaceholders(current_ext, user_supplied) ==
    \/ current_ext = <<>>
    \/ Lower(current_ext) \in PLACEHOLDER_EXTENSIONS

\* Faulty variant of can_replace: the user_supplied test left out.
CanReplaceWhateverTheUserSaid(current_ext, user_supplied) == TRUE

\* can_replace of _ensure_extension_matches_content (lines 457-461).
CanReplace(current_ext, user_supplied) ==
    \/ ~user_supplied
    \/ current_ext = <<>>
    \/ Lower(current_ext) \in PLACEHOLDER_EXTENSIONS

\* Faulty variant of _ensure_extension_matches_content: the new name is returned
\* without the warning.
EnsureWithDetectedSilently(filename, detected, response, user_supplied) ==
    IF ~Truthy(detected) THEN <<filename, NoWarning>>
    ELSE LET detected_extension ==
                 IF StartsWith(detected, <<".">>) THEN detected
                 ELSE <<".">> \o detected
             current_ext == PathSuffix(filename)
         IN  IF \/ Lower(current_ext) = Lower(detected_extension)
                \/ ~CanReplace(current_ext, user_supplied)
             THEN <<filename, NoWarning>>
             ELSE <<PathStem(filename) \o detected_extension, NoWarning>>

\* DownloadEngine._ensure_extension_matches_content, given the extension
\* that _detect_extension_from_response returned: <<filename, warning>>.
EnsureWithDetected(filename, detected, response, user_supplied) ==
    IF ~Truthy(detected) THEN <<filename, NoWarning>>
    ELSE LET detected_extension ==
                 IF StartsWith(detected, <<".">>) THEN detected
                 ELSE <<".">> \o detected
             current_ext == PathSuffix(filename)
         IN  IF Lower(current_ext) = Lower(detected_extension)
             THEN <<filename, NoWarning>>
             ELSE IF ~CanReplace(current_ext, user_supplied)
                  THEN <<filename, NoWarning>>
                  ELSE LET new_filename ==
                               PathStem(filename) \o detected_extension
                           content_type ==
                               IF RespTruthy(response) /\ response.ctype # <<>>
                               THEN response.ctype
                               ELSE <<"unknown">>
                       IN  <<new_filename,
                             Warning("Adjusted filename extension", <<>>,
                                     content_type, filename, new_filename)>>

\* DownloadEngine._ensure_extension_matches_content
EnsureExtensionMatchesContent(router, filename, url, response, content_sample, user_supplied) ==
    EnsureWithDetected(
        filename,
        DetectExtensionFromResponse(router, url, response, content_sample),
        response, user_supplied)


(***************************************************************************)
(* The DownloadEngine of aw_agents.download.download_core, the module the  *)
(* tests import: no router, no explicit extension, no placeholder set.     *)
(* Its _sanitize_filename and _infer_extension_from_content_type are the   *)
(* ones above, line for line.                                              *)
(***************************************************************************)

\* aw_agents.download.download_core: DownloadEngine._generate_filename.
\* The URL suffix is looked at only inside the branch that takes the stem
\* from the URL (lines 294-303).
LegacyGenerateFilename(url, context, response) ==
    LET typed == IF RespTruthy(response)
                 THEN InferExtensionFromContentType(response.ctype)
                 ELSE None
        named == IF RespTruthy(response) /\ Contains(response.cd, <<"filename=">>)
                 THEN CDFilename(response.cd)
                 ELSE None
        fromContext == IF Truthy(context) /\ ~Truthy(named)
                       THEN SanitizeFilename(context, DefaultMaxLength)
                       ELSE named
        urlStem == PathStem(UrlPath(url))
        url_ext == PathSuffix(UrlPath(url))
        filename == IF Truthy(fromContext) THEN fromContext
                    ELSE SanitizeFilename(
                             IF urlStem # <<>> THEN urlStem ELSE <<"download">>,
                             DefaultMaxLength)
        fromUrl == IF ~Truthy(fromContext) /\ ~Truthy(typed) /\ url_ext # <<>>
                   THEN url_ext
                   ELSE typed
        extension == IF Truthy(fromUrl) THEN fromUrl ELSE <<".", "bin">>
    IN  IF ~EndsWith(filename, extension) THEN filename \o extension
        ELSE filename


(***************************************************************************)
(* URL normalisation                                                       *)
(***************************************************************************)

\* '/blob/'
BlobSegment == <<"/", "blob", "/">>

\* Faulty variant of _handle_github_url: the host is replaced, '/blob/' is kept.
HandleGithubUrlKeepingBlob(url) ==
    IF Contains(url, <<"github.com">>) /\ Contains(url, BlobSegment)
    THEN Replace(url, <<"github.com">>, <<"raw.githubusercontent.com">>)
    ELSE url

\* _handle_github_url
HandleGithubUrl(url) ==
    IF Contains(url, <<"github.com">>) /\ Contains(url, BlobSegment)
    THEN Replace(Replace(url, <<"github.com">>, <<"raw.githubusercontent.com">>),
                 BlobSegment, <<"/">>)
    ELSE url

\* _handle_huggingface_url
HandleHuggingfaceUrl(url) ==
    IF Contains(url, <<"huggingface.co">>) /\ Contains(url, BlobSegment)
    THEN Replace(url, BlobSegment, <<"/", "resolve", "/">>)
    ELSE url

\* 'utm_source=chatgpt.com'
TrackingParameter == <<"utm_source=chatgpt", ".", "com">>

\* _remove_url_crap
RemoveUrlCrap(url) ==
    Replace(Replace(url, <<"?">> \o TrackingParameter, <<>>),
            <<"&">> \o TrackingParameter, <<>>)

(***************************************************************************)
(* Landing pages.  An element of a parsed body is                          *)
(* [tag, href, text]; href is None when the tag has no href attribute.     *)
(***************************************************************************)

\* The size above which an HTML body is taken for real content (line 105).
LandingSizeLimit == 1000000

\* download_patterns of _is_likely_landing_page
DownloadPatterns ==
    {<<"download">>, <<"get", " ", "file">>, <<"direct", " ", "link">>,
     <<"pdf">>, <<".", "zip">>, <<".", "tar">>, <<".", "csv">>, <<".", "json">>}

\* _is_likely_landing_page
IsLikelyLandingPage(response) ==
    /\ Contains(Lower(response.ctype), <<"text/html">>)
    /\ ~(response.body.size > LandingSizeLimit)
    /\ \E i \in DOMAIN response.body.elems :
          LET link == response.body.elems[i]
              text == Lower(link.text)
              href == IF link.href = None THEN <<>> ELSE Lower(link.href)
          IN  /\ link.tag \in {"a", "button"}
              /\ \E pattern \in DownloadPatterns :
                    Contains(text, pattern) \/ Contains(href, pattern)

\* urllib.parse.urljoin(url, href), for an absolute href, a host-relative
\* href ("/...") and an href relative to the directory of url.
UrlJoin(url, href) ==
    IF href = <<>> THEN url
    ELSE IF href[1] = "https://" THEN href
    ELSE IF href[1] = "/" THEN SubSeq(url, 1, 2) \o href
    ELSE LET base == SubSeq(url, 1, 2) \o UrlPath(url)
             slashes == {i \in DOMAIN base : i > 2 /\ base[i] = "/"}
         IN  IF slashes = {} THEN SubSeq(url, 1, 2) \o <<"/">> \o href
             ELSE SubSeq(base, 1, Max(slashes)) \o href

\* re.search(pattern, s) for the eight priority patterns: a suffix pattern
\* ('\.pdf$') matches at the end, the others anywhere.
PatternMatches(pattern, s) ==
    IF pattern.suffix THEN EndsWith(s, pattern.text)
    ELSE Contains(s, pattern.text)

\* priority_patterns of _find_download_link
PriorityPatterns ==
    << [text |-> <<".", "pdf">>, suffix |-> TRUE, points |-> 10],
       [text |-> <<"download">>, suffix |-> FALSE, points |-> 8],
       [text |-> <<".", "zip">>, suffix |-> TRUE, points |-> 7],
       [text |-> <<".", "tar", ".", "gz">>, suffix |-> TRUE, points |-> 7],
       [text |-> <<".", "csv">>, suffix |-> TRUE, points |-> 6],
       [text |-> <<".", "json">>, suffix |-> TRUE, points |-> 6],
       [text |-> <<"/", "raw", "/">>, suffix |-> FALSE, points |-> 5],
       [text |-> BlobSegment, suffix |-> FALSE, points |-> 3] >>

\* The score of a link: the points of every pattern that matches the
\* lower-cased absolute URL or the lower-cased text (lines 165-168).
RECURSIVE ScoreFrom(_, _, _)
ScoreFrom(k, abs_url, text) ==
    IF k > Len(PriorityPatterns) THEN 0
    ELSE (IF \/ PatternMatches(PriorityPatterns[k], Lower(abs_url))
             \/ PatternMatches(PriorityPatterns[k], text)
          THEN PriorityPatterns[k].points ELSE 0)
         + ScoreFrom(k + 1, abs_url, text)

LinkScore(abs_url, text) == ScoreFrom(1, abs_url, text)

\* The atoms of the modelled URLs and paths in the order of Python's string
\* comparison.
AtomOrder ==
    <<".", "/", "Downloads", "about", "archive", "blob", "example.com", "file",
      "github.com", "home", "https://", "main", "notes", "paper", "pdf",
      "raw.githubusercontent.com", "repo", "txt", "user", "x", "zip">>

AtomRank(a) ==
    IF \E i \in DOMAIN AtomOrder : AtomOrder[i] = a
    THEN CHOOSE i \in DOMAIN AtomOrder : AtomOrder[i] = a
    ELSE 0

\* s < t for Python strings (lexicographic).
RECURSIVE StrLess(_, _)
StrLess(s, t) ==
    IF t = <<>> THEN FALSE
    ELSE IF s = <<>> THEN TRUE
    ELSE IF s[1] = t[1] THEN StrLess(Tail(s), Tail(t))
    ELSE AtomRank(s[1]) < AtomRank(t[1])

\* (score, url) tuples compare by score, then by url.
CandidateLess(c, d) ==
    c.score < d.score \/ (c.score = d.score /\ StrLess(c.url, d.url))

\* Faulty variant of _find_download_link: the candidates are sorted in
\* ascending order, so the least one comes first.
FindDownloadLinkLeast(url, response) ==
    LET elems == response.body.elems
        anchors == {i \in DOMAIN elems :
                       elems[i].tag = "a" /\ elems[i].href # None}
        cand(i) == [score |-> LinkScore(UrlJoin(url, elems[i].href),
                                        Lower(elems[i].text)),
                    url |-> UrlJoin(url, elems[i].href)]
        candidates == {cand(i) : i \in {j \in anchors : cand(j).score > 0}}
    IN  IF candidates = {} THEN None
        ELSE (CHOOSE c \in candidates :
                 \A d \in candidates : ~CandidateLess(d, c)).url

\* _find_download_link: the candidates are the anchors with an href and a
\* positive score; candidates.sort(reverse=True) puts the greatest (score,
\* url) tuple first.
FindDownloadLink(url, response) ==
    LET elems == response.body.elems
        anchors == {i \in DOMAIN elems :
                       elems[i].tag = "a" /\ elems[i].href # None}
        cand(i) == [score |-> LinkScore(UrlJoin(url, elems[i].href),
                                        Lower(elems[i].text)),
                    url |-> UrlJoin(url, elems[i].href)]
        candidates == {cand(i) : i \in {j \in anchors : cand(j).score > 0}}
    IN  IF candidates = {} THEN None
        ELSE (CHOOSE c \in candidates :
                 \A d \in candidates : ~CandidateLess(c, d)).url

(***************************************************************************)
(* The network: what is served at each URL.  A HEAD response carries the   *)
(* resource's headers and no body; a GET response carries the body too.    *)
(* Whether a request raises, succeeds or returns an error status is the    *)
(* network's choice at each request.                                       *)
(***************************************************************************)

UrlPaper == <<"https://", "example.com", "/", "paper", ".", "pdf">>

UrlPage == <<"https://", "example.com", "/", "page">>

UrlInfo == <<"https://", "example.com", "/", "info">>

UrlArticle == <<"https://", "example.com", "/", "article", ".", "html">>

UrlDownload == <<"https://", "example.com", "/", "download">>

UrlGithubBlob ==
    <<"https://", "github.com", "/", "user", "/", "repo", "/", "blob", "/",
      "main", "/", "file", ".", "pdf", "?", "utm_source=chatgpt", ".", "com">>

UrlGithubRaw ==
    <<"https://", "raw.githubusercontent.com", "/", "user", "/", "repo", "/",
      "main", "/", "file", ".", "pdf">>

\* URLs that carry the tracking parameter as a later query parameter, and
\* split around a second copy of itself.
UrlTrackedLater ==
    <<"https://", "example.com", "/", "paper", ".", "pdf", "?", "a=1", "&",
      "utm_source=chatgpt", ".", "com">>

UrlTrackedNested ==
    <<"https://", "example.com", "/", "paper", ".", "pdf", "?",
      "utm_source=chatgpt", "&", "utm_source=chatgpt", ".", "com", ".", "com">>

\* A page that links to a file in its GitHub blob view.
UrlRepoPage == <<"https://", "example.com", "/", "repo">>

Element(tag, href, text) == [tag |-> tag, href |-> href, text |-> text]

\* <a href="https://github.com/user/repo/blob/main/file.pdf">Download</a>
RepoBody ==
    [size |-> 2000, head |-> <<"<html">>,
     elems |-> << Element("a", <<"https://", "github.com", "/", "user", "/",
                                 "repo", "/", "blob", "/", "main", "/", "file",
                                 ".", "pdf">>, <<"Download">>) >>]

PdfBody == [size |-> 5000, head |-> <<"%PDF">>, elems |-> <<>>]

\* <a href="paper.pdf">Download</a> <a href="x.zip">get</a>
LandingBody ==
    [size |-> 2000, head |-> <<"<html">>,
     elems |-> << Element("a", <<"paper", ".", "pdf">>, <<"Download">>),
                  Element("a", <<"x", ".", "zip">>, <<"get">>) >>]

\* <button>Download</button>: a landing page without any link
ButtonBody ==
    [size |-> 2000, head |-> <<"<html">>,
     elems |-> << Element("button", None, <<"Download">>) >>]

\* <a href="/about">About</a>: an ordinary page
ArticleBody ==
    [size |-> 2000, head |-> <<"<html">>,
     elems |-> << Element("a", <<"/", "about">>, <<"About">>) >>]

HtmlType == <<"text/html", ";", " ", "charset=utf-8">>

CDQuoted == <<"attachment", ";", " ", "filename=", Q, "report", ".", "txt", Q>>

\* A server that names the file by an absolute path.
UrlAttachment == <<"https://", "example.com", "/", "file">>

CDAbsolute ==
    <<"attachment", ";", " ", "filename=", Q, "/", "home", "/", "paper", ".",
      "pdf", Q>>

Resource(ctype, cd, body) == [ctype |-> ctype, cd |-> cd, body |-> body]

Site(u) ==
    CASE u = UrlPaper -> Resource(<<"application/pdf">>, <<>>, PdfBody)
      [] u = UrlPage -> Resource(HtmlType, <<>>, LandingBody)
      [] u = UrlRepoPage -> Resource(HtmlType, <<>>, RepoBody)
      [] u = UrlInfo -> Resource(HtmlType, <<>>, ButtonBody)
      [] u = UrlArticle -> Resource(HtmlType, <<>>, ArticleBody)
      [] u = UrlDownload ->
            Resource(<<"application/octet-stream">>, CDQuoted, PdfBody)
      [] u = UrlAttachment ->
            Resource(<<"application/pdf">>, CDAbsolute, PdfBody)
      [] u = UrlGithubRaw -> Resource(<<>>, <<>>, PdfBody)
      [] OTHER -> Resource(<<>>, <<>>, EmptyBody)

\* The status of a response that came back "ok" or "err".
StatusOf(outcome) == IF outcome = "ok" THEN 200 ELSE 404

\* session.head(u): the response when the request does not raise.
HeadResponse(u, outcome) ==
    [status |-> StatusOf(outcome), ctype |-> Site(u).ctype, cd |-> Site(u).cd,
     body |-> EmptyBody]

\* session.get(u, stream=True): the response when the request does not raise.
GetResponse(u, outcome) ==
    [status |-> StatusOf(outcome), ctype |-> Site(u).ctype, cd |-> Site(u).cd,
     body |-> Site(u).body]

Request(method, u, step, outcome) ==
    [method |-> method, url |-> u, step |-> step, outcome |-> outcome]

(***************************************************************************)
(* Exceptions                                                              *)
(***************************************************************************)

\* An exception: its type, the step that raised it, its message (a prefix
\* and the URL it names) and its __cause__ (<<type, step>>, <<>> if none).
Exception(type, step, prefix, u, cause) ==
    [type |-> type, step |-> step, prefix |-> prefix, url |-> u, cause |-> cause]

NoExc == Exception("None", "", "", <<>>, <<>>)

\* What a failing step raises.
Raised(type, step) == Exception(type, step, "", <<>>, <<>>)

\* Faulty variant of line 577: the RuntimeError is raised without `from e`.
DownloadFailureWithoutCause(u, e) ==
    Exception("RuntimeError", "download", "Failed to download", u, <<>>)

\* raise RuntimeError(f"Failed to download {final_url}: {e}") from e  (line 577)
DownloadFailure(u, e) ==
    Exception("RuntimeError", "download", "Failed to download", u,
              <<e.type, e.step>>)

(***************************************************************************)
(* Files                                                                   *)
(***************************************************************************)

\* self.default_download_dir
TargetDir == <<"/", "home", "/", "Downloads">>

\* target_dir / filename
JoinPath(dir, name) ==
    IF name # <<>> /\ name[1] = "/" THEN name ELSE dir \o <<"/">> \o name

(***************************************************************************)
(* Engine calls                                                            *)
(***************************************************************************)

\* The longest list of URLs given to download_multiple.
MaxBatch == 2

DownloadUrls ==
    {UrlPaper, UrlPage, UrlInfo, UrlArticle, UrlDownload, UrlGithubBlob,
     UrlTrackedLater, UrlTrackedNested, UrlRepoPage, UrlAttachment}

BatchUrls == {UrlPaper, UrlPage}

SomeContext == <<"My", " ", "File">>

\* The filename argument of download: omitted, with a real extension, with a
\* placeholder extension, an absolute path.
FilenameArgs ==
    {None, <<"report", ".", "txt">>, <<"data", ".", "bin">>,
     <<"/", "home", "/", "report", ".", "txt">>}

\* The lists of length n over S.
ListsOf(S, n) == [1..n -> S]

DownloadCalls ==
    [op : {"download"}, router : BOOLEAN,
     urls : ListsOf(DownloadUrls, 1), has_contexts : {TRUE},
     contexts : ListsOf({None, SomeContext}, 1), filename : FilenameArgs]

BatchCalls ==
    UNION {[op : {"download_multiple"}, router : BOOLEAN,
            urls : ListsOf(BatchUrls, n), has_contexts : {FALSE},
            contexts : {<<>>}, filename : {None}] : n \in 0..MaxBatch}
    \cup
    UNION {[op : {"download_multiple"}, router : {TRUE},
            urls : ListsOf(BatchUrls, n), has_contexts : {TRUE},
            contexts : ListsOf({SomeContext}, n) \cup ListsOf({SomeContext}, n + 1),
            filename : {None}] : n \in 1..MaxBatch}

\* The context of the URL being downloaded.
Context == IF call.has_contexts THEN call.contexts[item] ELSE None

\* user_provided_filename (line 523)
UserProvidedFilename == call.filename # None

(***************************************************************************)
(* Results                                                                 *)
(***************************************************************************)

\* The dictionary download returns (lines 563-574).
SuccessResult(path, u, ws, content_type) ==
    [path |-> path, url |-> u, warnings |-> ws,
     metadata |-> <<content_type, u>>]

\* f"Failed: {e}"
FailedWarning(e) == Warning("Failed", e.url, <<>>, <<e.type, e.prefix>>, e.cause)

\* The dictionary download_multiple records for a URL whose download raised
\* (lines 609-616).
FailureResult(u, e) ==
    [path |-> None, url |-> u, warnings |-> <<FailedWarning(e)>>,
     metadata |-> <<>>]

\* _resolve_download_url when the probe raises (lines 279-283).
ResolveOnProbeFailure(u) ==
    <<u, Warning("Could not verify URL", u, <<>>, <<>>, <<>>)>>

\* _resolve_download_url once a response is in hand (lines 285-301).
ResolveFromResponse(u, r) ==
    IF IsLikelyLandingPage(r)
    THEN LET actual_url == FindDownloadLink(u, r)
         IN  IF Truthy(actual_url)
             THEN <<actual_url,
                    Warning("Detected landing page", actual_url, <<>>, <<>>, <<>>)>>
             ELSE <<u, Warning("Landing page without download link", <<>>,
                               <<>>, <<>>, <<>>)>>
    ELSE <<u, NoWarning>>

\* warnings.append(warning) when there is a warning.
AppendWarning(ws, w) == IF w # NoWarning THEN Append(ws, w) ELSE ws

(***************************************************************************)
(* The engine as a state machine                                           *)
(***************************************************************************)

Outcomes == {"raise", "ok", "err"}

\* The locals of a fresh call of download(u).
StartDownload(u) ==
    /\ dl_url' = u
    /\ final_url' = <<>>
    /\ warnings' = <<>>
    /\ dl_filename' = None
    /\ pre_name' = None
    /\ dl_response' = NoResponse
    /\ first_chunk' = <<>>
    /\ reqs' = <<>>
    /\ opened' = {}

locals == <<dl_url, final_url, warnings, dl_filename, pre_name, dl_response,
            first_chunk, reqs, opened>>

IdlePure == [fn |-> "none", done |-> TRUE]

\* No tool call is in progress: the engine is called directly.
NoTool == [name |-> "none"]

NoReply == [kind |-> "none"]

AgentIdle == tool = NoTool /\ reply = NoReply

Init ==
    /\ pf = IdlePure
    /\ call \in DownloadCalls \cup BatchCalls
    /\ pc = "call"
    /\ item = 1
    /\ dl_url = <<>>
    /\ final_url = <<>>
    /\ warnings = <<>>
    /\ dl_filename = None
    /\ pre_name = None
    /\ dl_response = NoResponse
    /\ first_chunk = <<>>
    /\ exc = NoExc
    /\ results = <<>>
    /\ reqs = <<>>
    /\ opened = {}
    /\ dir_exists \in BOOLEAN
    /\ files = {}
    /\ AgentIdle

\* engine.download(url, context=..., filename=...)
CallDownload ==
    /\ pc = "call"
    /\ call.op = "download"
    /\ pc' = "start"
    /\ StartDownload(call.urls[1])
    /\ UNCHANGED <<agent, pf, call, item, exc, results, dir_exists, files>>

\* Faulty variant of download_multiple: the lengths are not compared, zip pairs
\* the URLs with the contexts there are.
CallDownloadMultipleUnchecked ==
    /\ pc = "call"
    /\ call.op = "download_multiple"
    /\ IF call.urls = <<>>
       THEN pc' = "done" /\ UNCHANGED <<exc, locals>>
       ELSE pc' = "start" /\ StartDownload(call.urls[1]) /\ UNCHANGED exc
    /\ UNCHANGED <<agent, pf, call, item, results, dir_exists, files>>

\* engine.download_multiple(urls, contexts=...): lines 597-604, up to the
\* first call of download.
CallDownloadMultiple ==
    /\ pc = "call"
    /\ call.op = "download_multiple"
    /\ IF call.has_contexts /\ Len(call.contexts) # Len(call.urls)
       THEN /\ exc' = Raised("ValueError", "download_multiple")
            /\ pc' = "done"
            /\ UNCHANGED locals
       ELSE IF call.urls = <<>>
            THEN pc' = "done" /\ UNCHANGED <<exc, locals>>
            ELSE pc' = "start" /\ StartDownload(call.urls[1]) /\ UNCHANGED exc
    /\ UNCHANGED <<agent, pf, call, item, results, dir_exists, files>>

\* download, lines 505-510, and _resolve_download_url, lines 264-283: the
\* URL is normalised and probed with a HEAD request.
ProbeHead ==
    /\ pc = "start"
    /\ LET u == HandleHuggingfaceUrl(HandleGithubUrl(RemoveUrlCrap(dl_url)))
       IN  \E o \in Outcomes :
             /\ dl_url' = u
             /\ reqs' = Append(reqs, Request("HEAD", u, "probe", o))
             /\ IF o = "raise"
                THEN /\ final_url' = ResolveOnProbeFailure(u)[1]
                     /\ warnings' = AppendWarning(warnings,
                                                  ResolveOnProbeFailure(u)[2])
                     /\ pc' = "mkdir"
                     /\ UNCHANGED dl_response
                ELSE /\ dl_response' = HeadResponse(u, o)
                     /\ pc' = IF dl_response'.status >= 400 THEN "probe_get"
                              ELSE "landing"
                     /\ UNCHANGED <<final_url, warnings>>
    /\ UNCHANGED <<agent, pf, call, item, dl_filename, pre_name, first_chunk, exc,
                   results, opened, dir_exists, files>>

\* _resolve_download_url, lines 275-283: the GET that replaces a HEAD with
\* an error status.
ProbeGet ==
    /\ pc = "probe_get"
    /\ \E o \in Outcomes :
          /\ reqs' = Append(reqs, Request("GET", dl_url, "probe", o))
          /\ IF o = "raise"
             THEN /\ final_url' = ResolveOnProbeFailure(dl_url)[1]
                  /\ warnings' = AppendWarning(warnings,
                                               ResolveOnProbeFailure(dl_url)[2])
                  /\ pc' = "mkdir"
                  /\ UNCHANGED dl_response
             ELSE /\ dl_response' = GetResponse(dl_url, o)
                  /\ pc' = "landing"
                  /\ UNCHANGED <<final_url, warnings>>
    /\ UNCHANGED <<agent, pf, call, item, dl_url, dl_filename, pre_name, first_chunk, exc,
                   results, opened, dir_exists, files>>

\* The probe response is a streamed GET whose body _is_likely_landing_page
\* reads (an HTML response: line 105 reads response.content).
ReadsProbeBody ==
    /\ reqs[Len(reqs)].method = "GET"
    /\ Contains(Lower(dl_response.ctype), <<"text/html">>)

\* _resolve_download_url, lines 285-301, and download, lines 510-512.
LandingCheck ==
    /\ pc = "landing"
    /\ final_url' = ResolveFromResponse(dl_url, dl_response)[1]
    /\ warnings' = AppendWarning(warnings, ResolveFromResponse(dl_url, dl_response)[2])
    /\ pc' = "mkdir"
    /\ UNCHANGED <<agent, pf, call, item, dl_url, dl_filename, pre_name, dl_response,
                   first_chunk, exc, results, reqs, opened, dir_exists, files>>

\* The same lines when reading the body of the streamed probe GET fails:
\* no handler is in place, the exception leaves download as it is.
LandingBodyReadFails ==
    /\ pc = "landing"
    /\ ReadsProbeBody
    /\ exc' = Raised("ChunkedEncodingError", "landing")
    /\ pc' = "raised"
    /\ UNCHANGED <<agent, pf, call, item, locals, results, dir_exists, files>>

\* download, lines 514-516
MakeDir ==
    /\ pc = "mkdir"
    /\ dir_exists' = TRUE
    /\ pc' = "name"
    /\ UNCHANGED <<agent, pf, call, item, locals, exc, results, files>>

\* download, lines 523-524, when the caller gave a filename.
UseGivenFilename ==
    /\ pc = "name"
    /\ Truthy(call.filename)
    /\ dl_filename' = call.filename
    /\ pc' = "final_get"
    /\ UNCHANGED <<agent, pf, call, item, dl_url, final_url, warnings, pre_name,
                   dl_response, first_chunk, exc, results, reqs, opened,
                   dir_exists, files>>

\* download, lines 524-530: the name is generated from a fresh HEAD, or
\* without a response when the HEAD raises.
FilenameHead ==
    /\ pc = "name"
    /\ ~Truthy(call.filename)
    /\ \E o \in Outcomes :
          /\ reqs' = Append(reqs, Request("HEAD", final_url, "name", o))
          /\ dl_filename' = GenerateFilename(
                             call.router, final_url, Context,
                             IF o = "raise" THEN NoResponse
                             ELSE HeadResponse(final_url, o),
                             None)
    /\ pc' = "final_get"
    /\ UNCHANGED <<agent, pf, call, item, dl_url, final_url, warnings, pre_name,
                   dl_response, first_chunk, exc, results, opened, dir_exists,
                   files>>

\* Faulty variant of the final GET: the file is opened for writing before the
\* request is sent.
FinalGetIntoOpenFile ==
    /\ pc = "final_get"
    /\ \E o \in Outcomes :
          /\ reqs' = Append(reqs, Request("GET", final_url, "final", o))
          /\ IF o = "ok"
             THEN /\ dl_response' = GetResponse(final_url, o)
                  /\ pc' = "first_chunk"
                  /\ UNCHANGED exc
             ELSE /\ exc' = DownloadFailure(
                                final_url,
                                Raised(IF o = "raise" THEN "ConnectionError"
                                       ELSE "HTTPError", "final_get"))
                  /\ pc' = "raised"
                  /\ UNCHANGED dl_response
    /\ opened' = opened \cup {JoinPath(TargetDir, dl_filename)}
    /\ files' = files \cup {JoinPath(TargetDir, dl_filename)}
    /\ UNCHANGED <<agent, pf, call, item, dl_url, final_url, warnings, dl_filename,
                   pre_name, first_chunk, results, dir_exists>>

\* download, lines 533-539 and 576-577: the final GET and raise_for_status.
FinalGet ==
    /\ pc = "final_get"
    /\ \E o \in Outcomes :
          /\ reqs' = Append(reqs, Request("GET", final_url, "final", o))
          /\ IF o = "ok"
             THEN /\ dl_response' = GetResponse(final_url, o)
                  /\ pc' = "first_chunk"
                  /\ UNCHANGED exc
             ELSE /\ exc' = DownloadFailure(
                                final_url,
                                Raised(IF o = "raise" THEN "ConnectionError"
                                       ELSE "HTTPError", "final_get"))
                  /\ pc' = "raised"
                  /\ UNCHANGED dl_response
    /\ UNCHANGED <<agent, pf, call, item, dl_url, final_url, warnings, dl_filename,
                   pre_name, first_chunk, results, opened, dir_exists, files>>

\* download, lines 541-542: the first chunk of the body, or a failure of
\* the stream.
ReadFirstChunk ==
    /\ pc = "first_chunk"
    /\ \E o \in {"raise", "ok"} :
          IF o = "ok"
          THEN /\ first_chunk' = dl_response.body.head
               /\ pc' = "ensure"
               /\ UNCHANGED exc
          ELSE /\ exc' = DownloadFailure(
                             final_url,
                             Raised("ChunkedEncodingError", "first_chunk"))
               /\ pc' = "raised"
               /\ UNCHANGED first_chunk
    /\ UNCHANGED <<agent, pf, call, item, dl_url, final_url, warnings, dl_filename,
                   pre_name, dl_response, results, reqs, opened, dir_exists,
                   files>>

\* download, lines 544-554: the extension is re-resolved against the final
\* response and its first chunk.
EnsureExtension ==
    /\ pc = "ensure"
    /\ LET r == EnsureExtensionMatchesContent(
                    call.router, dl_filename, final_url, dl_response, first_chunk,
                    UserProvidedFilename)
       IN  /\ pre_name' = dl_filename
           /\ dl_filename' = r[1]
           /\ warnings' = AppendWarning(warnings, r[2])
    /\ pc' = "write"
    /\ UNCHANGED <<agent, pf, call, item, dl_url, final_url, dl_response, first_chunk, exc,
                   results, reqs, opened, dir_exists, files>>

\* download, lines 554-561 and 576-577: the file is opened and the chunks
\* are written; opening may fail, and so may the stream or the disk once
\* the file is open.
WriteFile ==
    /\ pc = "write"
    /\ LET file_path == JoinPath(TargetDir, dl_filename)
       IN  \E o \in {"open_fails", "write_fails", "ok"} :
             /\ IF o = "open_fails"
                THEN UNCHANGED <<opened, files>>
                ELSE /\ opened' = opened \cup {file_path}
                     /\ files' = files \cup {file_path}
             /\ IF o = "ok"
                THEN pc' = "returned" /\ UNCHANGED exc
                ELSE /\ exc' = DownloadFailure(
                                   final_url,
                                   Raised(IF o = "open_fails" THEN "OSError"
                                          ELSE "ChunkedEncodingError", "write"))
                     /\ pc' = "raised"
    /\ UNCHANGED <<agent, pf, call, item, dl_url, final_url, warnings, dl_filename,
                   pre_name, dl_response, first_chunk, results, reqs, dir_exists>>

\* The result download returns (lines 563-574).
ReturnValue ==
    SuccessResult(JoinPath(TargetDir, dl_filename), final_url, warnings,
                  dl_response.ctype)

\* for url, context in zip(urls, contexts): the next URL, or the end.
Advance ==
    IF call.op = "download_multiple" /\ item < Len(call.urls)
    THEN /\ item' = item + 1
         /\ pc' = "start"
         /\ StartDownload(call.urls[item + 1])
    ELSE /\ pc' = "done"
         /\ UNCHANGED <<item, locals>>

\* download returns; download_multiple appends the result (lines 606-607).
Return ==
    /\ pc = "returned"
    /\ results' = Append(results, ReturnValue)
    /\ Advance
    /\ UNCHANGED <<agent, pf, call, exc, dir_exists, files>>

\* Faulty variant of the handler: the failed item is recorded under the URL the
\* exception names instead of the input URL.
CaughtItemUnderFinalUrl(rs, u, e) == Append(rs, FailureResult(e.url, e))

\* What download_multiple does with an exception of download (lines 608-616).
CaughtItem(rs, u, e) == Append(rs, FailureResult(u, e))

\* download raised inside download_multiple.
CatchItem ==
    /\ pc = "raised"
    /\ call.op = "download_multiple"
    /\ results' = CaughtItem(results, call.urls[item], exc)
    /\ exc' = NoExc
    /\ Advance
    /\ UNCHANGED <<agent, pf, call, dir_exists, files>>

\* download raised and nothing catches it: the caller gets the exception.
Propagate ==
    /\ pc = "raised"
    /\ call.op = "download"
    /\ pc' = "done"
    /\ UNCHANGED <<agent, pf, call, item, locals, exc, results, dir_exists, files>>

Next ==
    \/ CallDownload
    \/ CallDownloadMultiple
    \/ ProbeHead
    \/ ProbeGet
    \/ LandingCheck
    \/ LandingBodyReadFails
    \/ MakeDir
    \/ UseGivenFilename
    \/ FilenameHead
    \/ FinalGet
    \/ ReadFirstChunk
    \/ EnsureExtension
    \/ WriteFile
    \/ Return
    \/ CatchItem
    \/ Propagate

Spec == Init /\ [][Next]_vars

(***************************************************************************)
(* The agent (agent.py and base.py): execute_tool dispatches a tool name   *)
(* and a flat argument mapping to a handler that calls the engine and      *)
(* wraps what comes back.  The mapping is the set of its keys (tool.keys)  *)
(* and a value for each key it holds.                                      *)
(***************************************************************************)

ToolNames == {"download_content", "download_multiple", "list_downloads"}

\* The parameters of the handler of a tool, and those without a default.
Parameters(name) ==
    CASE name = "download_content" -> {"url", "context", "download_dir", "filename"}
      [] name = "download_multiple" -> {"urls", "contexts", "download_dir"}
      [] name = "list_downloads" -> {"download_dir", "pattern"}
      [] OTHER -> {}

Required(name) ==
    CASE name = "download_content" -> {"url"}
      [] name = "download_multiple" -> {"urls"}
      [] OTHER -> {}

\* handler(**arguments) binds: no required argument is missing and no key
\* is unexpected; otherwise the call raises TypeError.
Binds(name, keys) == Required(name) \subseteq keys /\ keys \subseteq Parameters(name)

\* The value of an argument, its default when the mapping lacks the key.
Arg(key, default) == IF key \in tool.keys THEN tool[key] ELSE default

\* ToolExecutionResult(...).to_dict()
NoData == [kind |-> "None"]

ToolResult(success, data, message, ws, metadata) ==
    [kind |-> "returned", success |-> success, data |-> data,
     message |-> message, warnings |-> ws, metadata |-> metadata]

\* ToolExecutionResult.success_result / error_result
SuccessReply(data, message, ws, metadata) ==
    ToolResult(TRUE, data, message, ws, metadata)

ErrorReply(message) == ToolResult(FALSE, NoData, message, <<>>, <<>>)

\* execute_tool raised.
RaisedReply(type) == [kind |-> "raised", type |-> type]

\* A message: its fixed text and what it names.
Message(text, about) == [text |-> text, about |-> about]

\* execute_tool, lines 163-166: no handler for the name.
\* Faulty variant of execute_tool: the handler is looked up in a dictionary
\* without the else branch.
ExecuteUnknownToolRaising ==
    /\ tool # NoTool
    /\ reply = NoReply
    /\ tool.name \notin ToolNames
    /\ reply' = RaisedReply("KeyError")
    /\ UNCHANGED <<pf, engine, tool>>

ExecuteUnknownTool ==
    /\ tool # NoTool
    /\ reply = NoReply
    /\ tool.name \notin ToolNames
    /\ reply' = ErrorReply(Message("Unknown tool", tool.name))
    /\ UNCHANGED <<pf, engine, tool>>

\* execute_tool, lines 157-162: handler(**arguments) does not bind.
ExecuteToolUnbound ==
    /\ tool # NoTool
    /\ reply = NoReply
    /\ tool.name \in ToolNames
    /\ ~Binds(tool.name, tool.keys)
    /\ reply' = RaisedReply("TypeError")
    /\ UNCHANGED <<pf, engine, tool>>

\* The handler has bound its arguments and not yet called the engine.
HandlerStarts(name) ==
    /\ tool # NoTool
    /\ reply = NoReply
    /\ tool.name = name
    /\ Binds(name, tool.keys)
    /\ pc = "idle"

\* _download_content, lines 176-178: the engine is called.
ExecuteDownloadContent ==
    /\ HandlerStarts("download_content")
    /\ call' = [op |-> "download", router |-> tool.router,
                urls |-> <<tool.url>>, has_contexts |-> TRUE,
                contexts |-> <<Arg("context", None)>>,
                filename |-> Arg("filename", None)]
    /\ pc' = "call"
    /\ UNCHANGED <<agent, pf, item, locals, exc, results, dir_exists, files>>

\* _download_content, lines 180-193: the engine's result or exception is
\* wrapped.
ReplyDownloadContent ==
    /\ tool # NoTool
    /\ reply = NoReply
    /\ tool.name = "download_content"
    /\ pc = "done"
    /\ reply' =
         IF exc # NoExc
         THEN ErrorReply(Message("Failed to download", tool.url))
         ELSE SuccessReply([kind |-> "download", path |-> results[1].path,
                            url |-> results[1].url],
                           Message("Downloaded successfully to", results[1].path),
                           results[1].warnings, results[1].metadata)
    /\ UNCHANGED <<pf, engine, tool>>

\* _download_multiple, lines 204-206: the engine is called.
ExecuteDownloadMultiple ==
    /\ HandlerStarts("download_multiple")
    /\ call' = [op |-> "download_multiple", router |-> tool.router,
                urls |-> tool.urls, has_contexts |-> "contexts" \in tool.keys,
                contexts |-> Arg("contexts", <<>>), filename |-> None]
    /\ pc' = "call"
    /\ UNCHANGED <<agent, pf, item, locals, exc, results, dir_exists, files>>

\* sum(1 for r in results if r['path'])
\* Faulty variant of the count: every result is counted as a success.
SuccessfulWhateverThePath(rs) == Len(rs)

Successful(rs) == Cardinality({i \in DOMAIN rs : Truthy(rs[i].path)})

\* _download_multiple, lines 208-228: the counts are taken and the engine's
\* results or exception wrapped.
ReplyDownloadMultiple ==
    /\ tool # NoTool
    /\ reply = NoReply
    /\ tool.name = "download_multiple"
    /\ pc = "done"
    /\ reply' =
         IF exc # NoExc
         THEN ErrorReply(Message("Failed to download files", <<exc.type>>))
         ELSE SuccessReply([kind |-> "batch", results |-> results,
                            total |-> Len(results),
                            successful |-> Successful(results),
                            failed |-> Len(results) - Successful(results)],
                           Message("Downloaded files",
                                   <<Successful(results), Len(results)>>),
                           <<>>, <<>>)
    /\ UNCHANGED <<pf, engine, tool>>

\* A directory that does not exist.
MissingDir == <<"/", "home", "/", "archive">>

\* target_dir.exists()
DirExists(d) == d = TargetDir /\ dir_exists

\* p is an entry of directory d.
InDir(p, d) ==
    /\ StartsWith(p, d \o <<"/">>)
    /\ Len(p) > Len(d) + 1
    /\ \A i \in (Len(d) + 2)..Len(p) : p[i] # "/"

\* Path.glob raises for an empty pattern (ValueError) and for an absolute
\* one (NotImplementedError).
GlobValid(pattern) == pattern # <<>> /\ pattern[1] # "/"

\* The name matches the pattern: '*', '*<suffix>' or a literal name.
GlobMatches(name, pattern) ==
    IF pattern = <<"*">> THEN TRUE
    ELSE IF pattern[1] = "*" THEN EndsWith(name, Tail(pattern))
    ELSE name = pattern

\* sorted(paths)
RECURSIVE SortPaths(_)
SortPaths(S) ==
    IF S = {} THEN <<>>
    ELSE LET least == CHOOSE p \in S : \A q \in S \ {p} : StrLess(p, q)
         IN  <<least>> \o SortPaths(S \ {least})

\* Faulty variant of the listing: the is_file() filter left out.
ListedFilesWithDirectories(target_dir, pattern, subdirs) ==
    LET globbed == {p \in files \cup subdirs :
                       InDir(p, target_dir) /\ GlobMatches(PathName(p), pattern)}
        sorted == SortPaths(globbed)
    IN  [i \in DOMAIN sorted |-> [name |-> PathName(sorted[i]), path |-> sorted[i]]]

\* file_list (lines 243-252): the regular files among sorted(glob(pattern)),
\* each with its name and path (the sizes are left out).
ListedFiles(target_dir, pattern, subdirs) ==
    LET globbed == {p \in files \cup subdirs :
                       InDir(p, target_dir) /\ GlobMatches(PathName(p), pattern)}
        sorted == SortPaths(globbed)
        regular == SelectSeq(sorted, LAMBDA p : p \in files)
    IN  [i \in DOMAIN regular |->
            [name |-> PathName(regular[i]), path |-> regular[i]]]

\* _list_downloads
ListDownloadsReply ==
    LET download_dir == Arg("download_dir", None)
        target_dir == IF Truthy(download_dir) THEN download_dir ELSE TargetDir
        pattern == Arg("pattern", <<"*">>)
    IN  IF ~DirExists(target_dir)
        THEN ErrorReply(Message("Directory does not exist", target_dir))
        ELSE IF ~GlobValid(pattern)
        THEN ErrorReply(Message("Failed to list files", pattern))
        ELSE LET file_list == ListedFiles(target_dir, pattern, tool.subdirs)
             IN  SuccessReply([kind |-> "listing", directory |-> target_dir,
                               files |-> file_list, total |-> Len(file_list)],
                              Message("Found files in", target_dir), <<>>, <<>>)

ExecuteListDownloads ==
    /\ HandlerStarts("list_downloads")
    /\ reply' = ListDownloadsReply
    /\ UNCHANGED <<pf, engine, tool>>

\* The tool calls.  router is the engine's configuration and subdirs are
\* the subdirectories of the target directory; a value whose key the
\* mapping lacks is never read.
NotesFile == TargetDir \o <<"/", "notes", ".", "txt">>

PaperFile == TargetDir \o <<"/", "paper", ".", "pdf">>

ArchiveDir == TargetDir \o <<"/", "archive", ".", "pdf">>

ToolCall(name, keys) ==
    [name : {name}, keys : keys, router : {TRUE},
     url : {UrlPaper}, urls : {<<>>}, context : {SomeContext},
     contexts : {<<>>}, filename : {<<"report", ".", "txt">>},
     download_dir : {TargetDir}, pattern : {<<"*">>}, subdirs : {{}}]

UnknownToolCalls ==
    ToolCall("nonexistent_tool", {{}, {"url"}, {"bogus"}})

DownloadContentCalls ==
    {[c EXCEPT !.url = u] :
        c \in ToolCall("download_content",
                       {{}, {"context"}, {"url"}, {"url", "context"},
                        {"url", "filename"}, {"url", "bogus"}}),
        u \in {UrlPaper, UrlPage}}

DownloadMultipleCalls ==
    UNION {{[c EXCEPT !.urls = us, !.contexts = cs] :
               c \in ToolCall("download_multiple",
                              {{}, {"urls"}, {"urls", "contexts"},
                               {"urls", "bogus"}}),
               us \in ListsOf({UrlPaper}, n),
               cs \in ListsOf({SomeContext}, n) \cup ListsOf({SomeContext}, n + 1)} :
           n \in 0..MaxBatch}

ListDownloadsCalls ==
    {[c EXCEPT !.download_dir = d, !.pattern = p, !.subdirs = s] :
        c \in ToolCall("list_downloads",
                       SUBSET {"download_dir", "pattern"} \cup {{"bogus"}}),
        d \in {TargetDir, MissingDir, <<>>},
        p \in {<<"*">>, <<"*", ".", "pdf">>, <<"notes", ".", "txt">>, <<>>},
        s \in {{}, {ArchiveDir}}}

\* The value of a key the mapping lacks is the one of ToolCall.
Absent(c) ==
    LET d == CHOOSE x \in ToolCall(c.name, {c.keys}) : TRUE
    IN  /\ "url" \notin c.keys => c.url = d.url
        /\ "urls" \notin c.keys => c.urls = d.urls
        /\ "contexts" \notin c.keys => c.contexts = d.contexts
        /\ "download_dir" \notin c.keys => c.download_dir = d.download_dir
        /\ "pattern" \notin c.keys => c.pattern = d.pattern

ToolCalls ==
    {c \in UnknownToolCalls \cup DownloadContentCalls
              \cup DownloadMultipleCalls \cup ListDownloadsCalls : Absent(c)}

\* The disk before the call: no target directory, or the directory with
\* some of two files; the subdirectories exist only with the directory.
InitAgent ==
    /\ pf = IdlePure
    /\ call = [op |-> "none"]
    /\ pc = "idle"
    /\ item = 1
    /\ dl_url = <<>>
    /\ final_url = <<>>
    /\ warnings = <<>>
    /\ dl_filename = None
    /\ pre_name = None
    /\ dl_response = NoResponse
    /\ first_chunk = <<>>
    /\ exc = NoExc
    /\ results = <<>>
    /\ reqs = <<>>
    /\ opened = {}
    /\ dir_exists \in BOOLEAN
    /\ files \in IF dir_exists THEN SUBSET {NotesFile, PaperFile} ELSE {{}}
    /\ tool \in {c \in ToolCalls : c.subdirs # {} => dir_exists}
    /\ reply = NoReply

NextAgent ==
    \/ ExecuteUnknownTool
    \/ ExecuteToolUnbound
    \/ ExecuteDownloadContent
    \/ ReplyDownloadContent
    \/ ExecuteDownloadMultiple
    \/ ReplyDownloadMultiple
    \/ ExecuteListDownloads
    \/ Next

SpecAgent == InitAgent /\ [][NextAgent]_vars

\* The engine at rest, while a pure function is applied.
EngineIdle ==
    /\ call = [op |-> "none"]
    /\ pc = "idle"
    /\ item = 1
    /\ dl_url = <<>>
    /\ final_url = <<>>
    /\ warnings = <<>>
    /\ dl_filename = None
    /\ pre_name = None
    /\ dl_response = NoResponse
    /\ first_chunk = <<>>
    /\ exc = NoExc
    /\ results = <<>>
    /\ reqs = <<>>
    /\ opened = {}
    /\ dir_exists = FALSE
    /\ files = {}

(***************************************************************************)
(* Inputs of the pure functions                                            *)
(***************************************************************************)

UrlFileTxt == <<"https://", "example.com", "/", "file", ".", "txt">>

UrlArxivPdf ==
    <<"https://", "arxiv.org", "/", "pdf", "/", "2103", ".", "00020", ".", "pdf">>

UrlTmp == <<"https://", "example.com", "/", "x", ".", "TMP">>

UrlBare == <<"https://", "example.com">>

\* A final path segment whose stem is a lone underscore.
UrlUnderscore == <<"https://", "example.com", "/", "_", ".", "pdf">>

\* A suffix that holds a character no filename may hold.
UrlStar == <<"https://", "example.com", "/", "file", ".", "t", "*", "t">>

GenUrls ==
    {UrlFileTxt, UrlArxivPdf, UrlDownload, UrlTmp, UrlBare, UrlUnderscore, UrlStar}

GenContexts ==
    {None, <<"MyFile">>, <<"Important", " ", "ML", " ", "Paper">>, <<"_">>,
     <<"File", ":", " ", "Name">>}

GenExplicit ==
    {None, <<"json">>, <<".", "json">>, <<".", "bin">>, <<"TMP">>}

ContentTypes ==
    {<<>>, <<"application/pdf">>, <<"text/html", ";", " ", "charset=utf-8">>,
     <<"application/octet-stream">>, <<"application/x-unknown">>}

CDUnquoted ==
    <<"attachment", ";", " ", "filename=", "report", ".", "pdf", ";", " ", "size=3">>

CDEmptyName == <<"attachment", ";", " ", "filename=", Q, Q>>

CDPath == <<"attachment", ";", " ", "filename=", Q, "a", "/", "b", Q>>

ContentDispositions == {<<>>, <<"attachment">>, CDQuoted, CDUnquoted, CDEmptyName, CDPath}

GenResponses ==
    {NoResponse} \cup
    [status : {200, 404}, ctype : ContentTypes, cd : ContentDispositions,
     body : {EmptyBody, PdfBody}]

EnsureFilenames ==
    {<<"report", ".", "txt">>, <<"report">>, <<"report", ".", "bin">>,
     <<"report", ".", "PDF">>, <<"report", ".", "TMP">>, <<".", "hidden">>,
     <<"a", "/", "b", ".", "txt">>}

EnsureResponses ==
    {NoResponse} \cup
    [status : {200}, ctype : ContentTypes, cd : {<<>>}, body : {EmptyBody}]

ContentSamples == {<<>>, <<"%PDF">>}

(***************************************************************************)
(* The pure functions as a state machine: Init draws a call, the action    *)
(* applies the function.                                                   *)
(***************************************************************************)

GenCalls ==
    [fn : {"_generate_filename"}, router : BOOLEAN, url : GenUrls,
     context : GenContexts, response : GenResponses, explicit : GenExplicit,
     done : {FALSE}, out : {<<>>}]

EnsureCalls ==
    [fn : {"_ensure_extension_matches_content"}, router : BOOLEAN,
     filename : EnsureFilenames, url : GenUrls, response : EnsureResponses,
     sample : ContentSamples, user_supplied : BOOLEAN,
     done : {FALSE}, out : {<<>>}]

\* The example of _handle_github_url's docstring (its result is UrlGithubRaw).
UrlGithubFile ==
    <<"https://", "github.com", "/", "user", "/", "repo", "/", "blob", "/",
      "main", "/", "file", ".", "pdf">>

\* The example of _handle_huggingface_url's docstring, and its result.
UrlHfBlob ==
    <<"https://", "huggingface.co", "/", "datasets", "/", "user", "/", "dataset",
      "/", "blob", "/", "main", "/", "data", ".", "csv">>

UrlHfResolve ==
    <<"https://", "huggingface.co", "/", "datasets", "/", "user", "/", "dataset",
      "/", "resolve", "/", "main", "/", "data", ".", "csv">>

\* A GitHub URL that is no blob URL, a blob path on another host, a blob
\* path inside a blob path, and a Hugging Face blob URL whose query names
\* github.com.
UrlGithubRepo == <<"https://", "github.com", "/", "user", "/", "repo">>

UrlBlobElsewhere == <<"https://", "example.com", "/", "blob", "/", "x">>

UrlDoubleBlob ==
    <<"https://", "github.com", "/", "a", "/", "blob", "/", "blob", "/", "x">>

UrlHfFromGithub ==
    <<"https://", "huggingface.co", "/", "u", "/", "d", "/", "blob", "/", "main",
      "/", "x", ".", "csv", "?", "ref=", "github.com">>

RewriteUrls ==
    {UrlGithubFile, UrlGithubBlob, UrlHfBlob, UrlGithubRepo, UrlBlobElsewhere,
     UrlDoubleBlob, UrlHfFromGithub, UrlTrackedLater, UrlTrackedNested, UrlPaper}

\* Responses given to _is_likely_landing_page: HTML or not, a body just
\* below, at and just above the size limit, with download links, with an
\* ordinary link, with a button only.
LandingContentTypes == {HtmlType, <<"Text/HTML">>, <<"application/pdf">>}

LandingSizes == {LandingSizeLimit - 1, LandingSizeLimit, LandingSizeLimit + 1}

LandingResponses ==
    [status : {200}, ctype : LandingContentTypes, cd : {<<>>},
     body : [size : LandingSizes, head : {<<"<html">>},
             elems : {LandingBody.elems, ArticleBody.elems, ButtonBody.elems}]]

LandingCalls ==
    [fn : {"_is_likely_landing_page"}, response : LandingResponses,
     done : {FALSE}, out : {FALSE}]

\* The elements of the pages given to _find_download_link: the two links of
\* the example, an ordinary link, a button, an anchor without href, a blob
\* link, a link whose text names a PDF, a link in upper case, and a link
\* that says 'download' in both its href and its text.
LinkElements ==
    {Element("a", <<"paper", ".", "pdf">>, <<"Download">>),
     Element("a", <<"x", ".", "zip">>, <<"get">>),
     Element("a", <<"/", "about">>, <<"About">>),
     Element("button", None, <<"Download">>),
     Element("a", None, <<"Download">>),
     Element("a", UrlGithubFile, <<"file">>),
     Element("a", <<"/", "about">>, <<"paper", ".", "pdf">>),
     Element("a", <<"paper", ".", "PDF">>, <<"get">>),
     Element("a", <<"/", "download">>, <<"Download">>)}

\* The most elements a page given to _find_download_link holds.
MaxLinks == 2

LinkPages ==
    UNION {[1..n -> LinkElements] : n \in 0..MaxLinks}

FindCalls ==
    [fn : {"_find_download_link"}, url : {UrlPage},
     response : [status : {200}, ctype : {HtmlType}, cd : {<<>>},
                 body : [size : {LandingBody.size}, head : {<<"<html">>},
                         elems : LinkPages]],
     done : {FALSE}, out : {<<>>}]

\* The rewrites are applied one after the other, each to the output of the
\* one before: either host rewrite alone, both in either order, or
\* _remove_url_crap.
RewriteOrders ==
    {<<"github">>, <<"huggingface">>, <<"github", "huggingface">>,
     <<"huggingface", "github">>, <<"crap">>}

RewriteCalls ==
    [fn : {"url_rewrites"}, url : RewriteUrls, todo : RewriteOrders,
     applied : {<<>>}, done : {FALSE}, out : RewriteUrls]

\* _sanitize_filename is called on every string of at most MaxNameLen
\* characters over SanitizeAlphabet (one atom is one character here), with
\* every max_length from 0 to MaxNameLen.
MaxNameLen == 4

SanitizeAlphabet == {"a", "_", " ", "\t", ":"}

SanitizeNames == UNION {[1..n -> SanitizeAlphabet] : n \in 0..MaxNameLen}

\* times counts the applications: the second one is given the output of
\* the first.
SanitizeCalls ==
    [fn : {"_sanitize_filename"}, name : SanitizeNames,
     max_length : 0..MaxNameLen, done : {FALSE}, times : {0}, out : {<<>>},
     first : {<<>>}]

LegacyCalls ==
    [fn : {"legacy._generate_filename"}, url : GenUrls, context : GenContexts,
     response : GenResponses, done : {FALSE}, out : {<<>>}]

PureCalls ==
    GenCalls \cup EnsureCalls \cup LegacyCalls \cup SanitizeCalls
      \cup {c \in RewriteCalls : c.out = c.url} \cup LandingCalls
      \cup FindCalls

InitPure == pf \in PureCalls /\ EngineIdle /\ AgentIdle

CallGenerateFilename ==
    /\ pf.fn = "_generate_filename"
    /\ ~pf.done
    /\ pf' = [pf EXCEPT !.done = TRUE,
                        !.out = GenerateFilename(pf.router, pf.url, pf.context,
                                                 pf.response, pf.explicit)]
    /\ UNCHANGED <<engine, agent>>

CallEnsureExtension ==
    /\ pf.fn = "_ensure_extension_matches_content"
    /\ ~pf.done
    /\ pf' = [pf EXCEPT !.done = TRUE,
                        !.out = EnsureExtensionMatchesContent(
                                    pf.router, pf.filename, pf.url, pf.response,
                                    pf.sample, pf.user_supplied)]
    /\ UNCHANGED <<engine, agent>>

CallLegacyGenerateFilename ==
    /\ pf.fn = "legacy._generate_filename"
    /\ ~pf.done
    /\ pf' = [pf EXCEPT !.done = TRUE,
                        !.out = LegacyGenerateFilename(pf.url, pf.context,
                                                       pf.response)]
    /\ UNCHANGED <<engine, agent>>

CallSanitizeFilename ==
    /\ pf.fn = "_sanitize_filename"
    /\ pf.times = 0
    /\ pf' = [pf EXCEPT !.done = TRUE, !.times = 1,
                        !.out = SanitizeFilename(pf.name, pf.max_length),
                        !.first = SanitizeFilename(pf.name, pf.max_length)]
    /\ UNCHANGED <<engine, agent>>

\* _sanitize_filename applied to its own output.
CallSanitizeFilenameAgain ==
    /\ pf.fn = "_sanitize_filename"
    /\ pf.times = 1
    /\ pf' = [pf EXCEPT !.times = 2,
                        !.out = SanitizeFilename(pf.out, pf.max_length)]
    /\ UNCHANGED <<engine, agent>>

\* The next rewrite is applied to the URL in hand.
ApplyRewrite(name, rewritten) ==
    /\ pf.fn = "url_rewrites"
    /\ pf.todo # <<>>
    /\ Head(pf.todo) = name
    /\ pf' = [pf EXCEPT !.todo = Tail(pf.todo),
                        !.applied = Append(pf.applied, name),
                        !.done = Tail(pf.todo) = <<>>,
                        !.out = rewritten]
    /\ UNCHANGED <<engine, agent>>

CallHandleGithubUrl == ApplyRewrite("github", HandleGithubUrl(pf.out))

CallHandleHuggingfaceUrl ==
    ApplyRewrite("huggingface", HandleHuggingfaceUrl(pf.out))

CallRemoveUrlCrap == ApplyRewrite("crap", RemoveUrlCrap(pf.out))

CallIsLikelyLandingPage ==
    /\ pf.fn = "_is_likely_landing_page"
    /\ ~pf.done
    /\ pf' = [pf EXCEPT !.done = TRUE, !.out = IsLikelyLandingPage(pf.response)]
    /\ UNCHANGED <<engine, agent>>

CallFindDownloadLink ==
    /\ pf.fn = "_find_download_link"
    /\ ~pf.done
    /\ pf' = [pf EXCEPT !.done = TRUE,
                        !.out = FindDownloadLink(pf.url, pf.response)]
    /\ UNCHANGED <<engine, agent>>

NextPure ==
    \/ CallFindDownloadLink
    \/ CallIsLikelyLandingPage
    \/ CallHandleGithubUrl
    \/ CallHandleHuggingfaceUrl
    \/ CallRemoveUrlCrap
    \/ CallGenerateFilename
    \/ CallEnsureExtension
    \/ CallLegacyGenerateFilename
    \/ CallSanitizeFilename
    \/ CallSanitizeFilenameAgain

SpecPure == InitPure /\ [][NextPure]_vars


(***************************************************************************)
(* Claims about filename generation (checked under SpecPure)               *)
(***************************************************************************)

GenDone == pf.fn = "_generate_filename" /\ pf.done

EnsureDone == pf.fn = "_ensure_extension_matches_content" /\ pf.done

\* The response carries a Content-Disposition header with a filename= token
\* that has a non-empty value.
CarriesFilenameToken(response) ==
    /\ response # NoResponse
    /\ \E i \in DOMAIN response.cd :
          /\ response.cd[i] = "filename="
          /\ i < Len(response.cd)
          /\ \/ response.cd[i + 1] \notin {Q, ";", " "}
             \/ /\ response.cd[i + 1] = Q
                /\ i + 2 <= Len(response.cd)
                /\ response.cd[i + 2] # Q

\* The value of the header's first filename= token: the quoted string, or
\* the characters up to the next ";" or blank.
FilenameTokenValue(h) ==
    LET i == Min({k \in DOMAIN h : h[k] = "filename="})
        quoted == i < Len(h) /\ h[i + 1] = Q
        s == IF quoted THEN i + 2 ELSE i + 1
        stops == {j \in s..Len(h) :
                     IF quoted THEN h[j] = Q ELSE h[j] \in {";", " ", Q}}
        e == IF stops = {} THEN Len(h) ELSE Min(stops) - 1
    IN  SubSeq(h, s, e)

\* An extension that is present and no placeholder.
Usable(e) == e # <<>> /\ e # None /\ Lower(e) \notin PLACEHOLDER_EXTENSIONS

\* The explicit hint with its leading dot.
Dotted(e) == IF e[1] = "." THEN e ELSE <<".">> \o e

\* C5 (as claimed): for every url, context and response without a
\* Content-Disposition filename, and for an engine with or without a router,
\* an explicit extension that is no placeholder ends the generated name.
C5_ExplicitExtensionAlwaysWins ==
    (/\ GenDone
     /\ ~CarriesFilenameToken(pf.response)
     /\ pf.explicit # None
     /\ Usable(Dotted(pf.explicit)))
    => EndsWith(pf.out, Dotted(pf.explicit))

\* What the router returns for the call, with the arguments the engine
\* passes it.
RouterAnswer ==
    ExtensionRouter(pf.url,
                    IF RespTruthy(pf.response) THEN pf.response.body.head ELSE <<>>,
                    IF RespTruthy(pf.response) THEN pf.response.ctype ELSE <<>>,
                    pf.explicit)

\* No explicit hint, and the router is absent or yields nothing usable.
NoHintNoRoute ==
    /\ pf.explicit = None
    /\ \/ ~pf.router
       \/ ~Usable(IF RouterAnswer = None THEN None ELSE Dotted(RouterAnswer))

\* The extension the priority content-type > URL suffix > ".bin" gives when
\* the content-type is taken from response r (None: no response).
FallbackExtension(url, r) ==
    LET typed == IF r = NoResponse THEN <<>>
                 ELSE InferExtensionFromContentType(r.ctype)
        suffix == PathSuffix(UrlPath(url))
    IN  IF Usable(typed) THEN typed
        ELSE IF Usable(suffix) THEN suffix ELSE <<".", "bin">>

\* stem followed by ext, unless the stem already ends with it.
WithExtension(stem, ext) == IF EndsWith(stem, ext) THEN stem ELSE stem \o ext

NeverTmpDatDownload(name) ==
    \A e \in {<<".", "tmp">>, <<".", "dat">>, <<".", "download">>} :
        ~EndsWith(Lower(name), e)

\* C6 (as claimed): with no hint and no usable router answer, a response
\* without a Content-Disposition filename gets the content-type's extension
\* if usable, else the URL suffix if usable, else ".bin"; never .tmp, .dat
\* or .download.
C6_ContentTypeThenSuffixThenBin ==
    (GenDone /\ NoHintNoRoute /\ ~CarriesFilenameToken(pf.response))
    => /\ pf.out = WithExtension(FilenameStem(pf.url, pf.context),
                                 FallbackExtension(pf.url, pf.response))
       /\ NeverTmpDatDownload(pf.out)

\* C6 (amended): the same priority, the content-type being that of a
\* response with a status below 400; a response with an error status counts
\* as no response, so its content-type is skipped.
C6_ContentTypeOfOkResponseThenSuffixThenBin ==
    (GenDone /\ NoHintNoRoute /\ ~CarriesFilenameToken(pf.response))
    => /\ pf.out = WithExtension(
                       FilenameStem(pf.url, pf.context),
                       FallbackExtension(
                           pf.url,
                           IF pf.response.status < 400 THEN pf.response
                           ELSE NoResponse))
       /\ NeverTmpDatDownload(pf.out)

\* C6 witness: a placeholder from the content-type (.bin for
\* application/octet-stream) did not block the URL suffix.
C6_Witness ==
    /\ GenDone
    /\ NoHintNoRoute
    /\ pf.response.status = 200
    /\ pf.response.ctype = <<"application/octet-stream">>
    /\ pf.response.cd = <<>>
    /\ pf.url = UrlFileTxt
    /\ pf.context = <<"MyFile">>
    /\ pf.out = <<"MyFile", ".", "txt">>

\* C7 (as claimed): a Content-Disposition filename= token with a non-empty
\* value is returned exactly, whatever the context and the URL.
C7_ContentDispositionValueVerbatim ==
    (GenDone /\ CarriesFilenameToken(pf.response))
    => pf.out = FilenameTokenValue(pf.response.cd)

\* C8: a user-supplied filename with a real extension is returned unchanged
\* with no warning; the filename changes only if the detected extension
\* differs from the current one and the name was not user-supplied, has no
\* extension or has a placeholder extension.
C8_UserExtensionProtected ==
    EnsureDone =>
      LET detected == DetectExtensionFromResponse(pf.router, pf.url,
                                                  pf.response, pf.sample)
          current == PathSuffix(pf.filename)
      IN  /\ (pf.user_supplied /\ Usable(current))
               => pf.out = <<pf.filename, NoWarning>>
          /\ pf.out[1] # pf.filename
               => /\ detected # None
                  /\ Lower(detected) # Lower(current)
                  /\ \/ ~pf.user_supplied
                     \/ current = <<>>
                     \/ Lower(current) \in PLACEHOLDER_EXTENSIONS

\* C8 witness: a user-supplied report.txt kept although .pdf was detected.
C8_Witness ==
    /\ EnsureDone
    /\ pf.user_supplied
    /\ pf.filename = <<"report", ".", "txt">>
    /\ DetectExtensionFromResponse(pf.router, pf.url, pf.response, pf.sample)
         = <<".", "pdf">>
    /\ pf.out = <<pf.filename, NoWarning>>


(***************************************************************************)
(* Claims about download and download_multiple (checked under Spec)        *)
(***************************************************************************)

IsBatch == call.op = "download_multiple"

\* The requests of the current download that are its final GET.
FinalRequests == {i \in DOMAIN reqs : reqs[i].step = "final"}

\* The requests of the current download, of the given step, that raised.
RaisedRequests(step) ==
    {i \in DOMAIN reqs : reqs[i].step = step /\ reqs[i].outcome = "raise"}

\* A result as download_multiple records it for a URL whose download raised.
IsFailureResult(r, u) ==
    /\ r.path = None
    /\ r.url = u
    /\ Len(r.warnings) = 1
    /\ r.warnings[1].kind = "Failed"

C1_ResultsInStep ==
    IsBatch =>
      /\ pc \notin {"call", "done"} => Len(results) = item - 1
      /\ (pc = "done" /\ exc = NoExc) => Len(results) = Len(call.urls)
      /\ pc = "done" => exc.type \in {"None", "ValueError"}
      /\ \A k \in DOMAIN results :
            results[k].path # None \/ IsFailureResult(results[k], call.urls[k])

C1_RaiseBecomesResult ==
    (IsBatch /\ pc = "raised")
    => /\ Len(results') = Len(results) + 1
       /\ IsFailureResult(results'[Len(results')], call.urls[item])
       /\ exc' = NoExc
       /\ IF item < Len(call.urls) THEN pc' = "start" /\ item' = item + 1
          ELSE pc' = "done"

C1_ReturnBecomesResult ==
    (IsBatch /\ pc = "returned")
    => /\ Len(results') = Len(results) + 1
       /\ results'[Len(results')].path # None

C1_ResultsKept ==
    \A k \in DOMAIN results : k \in DOMAIN results' /\ results'[k] = results[k]

\* C1: download_multiple returns one result per input URL, in input order;
\* a URL whose download raises yields a result with path null, the input
\* URL and one warning starting with "Failed", and the later URLs are still
\* processed; a URL that succeeds yields a non-null path; no exception of
\* an item leaves download_multiple.
C1_OneResultPerUrl ==
    /\ []C1_ResultsInStep
    /\ [][C1_RaiseBecomesResult]_vars
    /\ [][C1_ReturnBecomesResult]_vars
    /\ [][C1_ResultsKept]_vars

\* C1 witness: a batch of two URLs whose first download failed and whose
\* second succeeded.
C1_Witness ==
    /\ IsBatch
    /\ pc = "done"
    /\ Len(results) = 2
    /\ results[1].path = None
    /\ results[2].path # None

\* C2: the final GET is issued at most once per call; when it raises or
\* returns an error status, or the body stream or the file write fails,
\* download raises a RuntimeError "Failed to download <final url>..." whose
\* cause is the original exception.
C2_FinalGetOnceAndLabelled ==
    /\ Cardinality(FinalRequests) <= 1
    /\ (pc = "raised" /\ FinalRequests # {})
       => LET last == reqs[Len(reqs)]
          IN  /\ last.step = "final"
              /\ exc.type = "RuntimeError"
              /\ exc.prefix = "Failed to download"
              /\ exc.url = final_url
              /\ exc.url = last.url
              /\ last.outcome = "raise"
                   => exc.cause = <<"ConnectionError", "final_get">>
              /\ last.outcome = "err"
                   => exc.cause = <<"HTTPError", "final_get">>
              /\ last.outcome = "ok"
                   => exc.cause \in {<<"ChunkedEncodingError", "first_chunk">>,
                                     <<"ChunkedEncodingError", "write">>,
                                     <<"OSError", "write">>}

\* C2 witness: the final GET returned an error status and download raised.
C2_Witness ==
    /\ pc = "raised"
    /\ FinalRequests # {}
    /\ reqs[Len(reqs)].outcome = "err"
    /\ exc.cause = <<"HTTPError", "final_get">>

\* The warnings that describe a failed probe.
ProbeFailureWarnings ==
    {i \in DOMAIN warnings : warnings[i].kind = "Could not verify URL"}

\* C3 (as claimed): a transport failure of a probe request (the resolution
\* probe or the filename HEAD) never fails the download: the final GET is
\* reached with the URL unchanged, and a warning describing each failure is
\* in the warnings.
C3_ProbeFailuresBecomeWarnings ==
    /\ pc = "raised" => FinalRequests # {}
    /\ FinalRequests # {}
       => /\ RaisedRequests("probe") # {} => final_url = dl_url
          /\ \A i \in RaisedRequests("name") : reqs[i].url = final_url
          /\ Cardinality(ProbeFailureWarnings)
               >= Cardinality(RaisedRequests("probe") \cup RaisedRequests("name"))

\* The resolution is over and every probe request yielded a response.
ProbeResponded ==
    /\ pc \in {"mkdir", "name", "final_get", "first_chunk", "ensure", "write",
               "returned"}
    /\ RaisedRequests("probe") = {}

\* What a GET of u returns: the resource at u.
ResourceAt(u) == GetResponse(u, "ok")

\* C4 (as claimed): whenever the probe yields a response, a landing page
\* with a candidate link sends the final GET to the candidate, with a
\* 'Detected landing page' warning; a landing page without candidate keeps
\* the URL, with one warning; anything else keeps the URL, with no warning.
C4_LandingPageResolved ==
    ProbeResponded =>
      LET landing == IsLikelyLandingPage(ResourceAt(dl_url))
          candidate == FindDownloadLink(dl_url, ResourceAt(dl_url))
      IN  /\ final_url = IF landing /\ candidate # None THEN candidate
                         ELSE dl_url
          /\ \A i \in FinalRequests : reqs[i].url = final_url
          /\ pc = "mkdir"
               => IF landing /\ candidate # None
                  THEN /\ Len(warnings) = 1
                       /\ warnings[1].kind = "Detected landing page"
                       /\ warnings[1].url = candidate
                  ELSE IF landing THEN Len(warnings) = 1
                       ELSE warnings = <<>>

\* The warnings of the second pass.
AdjustWarnings ==
    {i \in DOMAIN warnings : warnings[i].kind = "Adjusted filename extension"}

\* C9: a warning naming the final response's content-type ("unknown" when
\* the response has none) is in the warnings if and only if the second pass
\* changed the filename; the file is opened under the corrected name, the
\* result's path is the corrected name, and no file is created under the
\* name before the correction.
C9_WarningIffRenamed ==
    /\ pre_name = None => AdjustWarnings = {}
    /\ pre_name # None
       => /\ (AdjustWarnings # {}) <=> (dl_filename # pre_name)
          /\ \A i \in AdjustWarnings :
                /\ warnings[i].ctype = IF dl_response.ctype # <<>>
                                       THEN dl_response.ctype
                                       ELSE <<"unknown">>
                /\ warnings[i].from = pre_name
                /\ warnings[i].to = dl_filename
          /\ opened \subseteq {JoinPath(TargetDir, dl_filename)}
          /\ dl_filename # pre_name
               => JoinPath(TargetDir, pre_name) \notin opened
          /\ pc = "returned"
               => /\ opened = {JoinPath(TargetDir, dl_filename)}
                  /\ ReturnValue.path = JoinPath(TargetDir, dl_filename)
    /\ (pc = "done" /\ ~IsBatch /\ results # <<>>)
       => results[1].path = JoinPath(TargetDir, dl_filename)

\* C9 witness: a download returned after the second pass renamed the file.
C9_Witness ==
    /\ pc = "returned"
    /\ dl_filename # pre_name
    /\ AdjustWarnings # {}

\* C10: after a successful download whose filename the caller did not
\* supply, the extension of the written file equals, case-insensitively,
\* the extension detected from the final response whenever there is one;
\* when nothing is detected the name generated before the download is kept.
C10_WrittenExtensionIsDetected ==
    (pc = "returned" /\ call.filename = None)
    => LET detected == DetectExtensionFromResponse(
                           call.router, final_url, dl_response, first_chunk)
       IN  /\ opened = {JoinPath(TargetDir, dl_filename)}
           /\ IF detected # None
              THEN \A path \in opened :
                      Lower(PathSuffix(path)) = Lower(detected)
              ELSE dl_filename = pre_name

\* C10 witness: the name report.txt of a Content-Disposition header became
\* report.pdf once the first chunk was sniffed.
C10_Witness ==
    /\ pc = "returned"
    /\ call.filename = None
    /\ pre_name = <<"report", ".", "txt">>
    /\ dl_filename = <<"report", ".", "pdf">>


(***************************************************************************)
(* Claims about the stem and the URL suffix (checked under SpecPure)       *)
(***************************************************************************)

LegacyDone == pf.fn = "legacy._generate_filename" /\ pf.done

\* A call of _generate_filename of either module has returned, with no
\* response and (where the parameter exists) no explicit extension.
GenDoneWithoutResponse ==
    /\ \/ LegacyDone
       \/ GenDone /\ pf.explicit = None
    /\ pf.response = NoResponse

\* C11 (as claimed): in both modules, with no response, a URL suffix that is
\* no placeholder is the extension of the generated name, whether the stem
\* is the sanitized context or comes from the URL; so the arXiv URL with
\* context 'Important ML Paper' gives 'Important_ML_Paper.pdf'.
C11_UrlSuffixWithoutResponse ==
    (GenDoneWithoutResponse /\ Usable(PathSuffix(UrlPath(pf.url))))
    => pf.out = WithExtension(FilenameStem(pf.url, pf.context),
                              PathSuffix(UrlPath(pf.url)))

\* The stem as the priority list gives it: the sanitized context if that is
\* non-empty, else the sanitized URL stem if that is non-empty, else
\* 'download'.
StemByPriority(url, context) ==
    LET fromContext == IF context = None THEN <<>>
                       ELSE SanitizeFilename(context, DefaultMaxLength)
        fromUrl == SanitizeFilename(PathStem(UrlPath(url)), DefaultMaxLength)
    IN  IF fromContext # <<>> THEN fromContext
        ELSE IF fromUrl # <<>> THEN fromUrl
        ELSE <<"download">>

\* C12 (as claimed): without a Content-Disposition filename the returned
\* name is a non-empty stem -- the sanitized context, else the sanitized URL
\* stem, else 'download' -- followed by the resolved extension.
C12_StemByPriorityNeverEmpty ==
    (GenDone /\ ~CarriesFilenameToken(pf.response))
    => /\ StemByPriority(pf.url, pf.context) # <<>>
       /\ pf.out = WithExtension(StemByPriority(pf.url, pf.context),
                                 ResolveExtension(pf.router, pf.url, pf.response,
                                                  pf.explicit))

(***************************************************************************)
(* Claims about _sanitize_filename (checked under SpecPure)                *)
(***************************************************************************)

SanitizeDone == pf.fn = "_sanitize_filename" /\ pf.times >= 1

\* The characters < > : " / \ | ? * and the whitespace characters.
ForbiddenInNames == InvalidChars \cup {" ", "\t", "\n", "\r"}

HasNoneOf(s, chars) == \A i \in DOMAIN s : s[i] \notin chars

\* The sanitizer's own output: no forbidden character, no whitespace, at
\* most max_length characters.
SanitizedOutputClean ==
    SanitizeDone
    => /\ HasNoneOf(pf.out, ForbiddenInNames)
       /\ Len(pf.out) <= pf.max_length

\* A name generated from a context: the context sanitizes to a non-empty
\* stem and no Content-Disposition header names the file.
GeneratedFromContext ==
    /\ GenDone
    /\ ~CarriesFilenameToken(pf.response)
    /\ pf.context # None
    /\ SanitizeFilename(pf.context, DefaultMaxLength) # <<>>

\* C13 (as claimed): the output of _sanitize_filename holds none of the
\* characters < > : " / \ | ? *, no whitespace, and at most max_length
\* characters; and so a filename generated from a context holds none of
\* these characters.
C13_NoForbiddenCharacters ==
    /\ SanitizedOutputClean
    /\ GeneratedFromContext => HasNoneOf(pf.out, InvalidChars)

\* C14 (as claimed): the output of _sanitize_filename neither starts nor
\* ends with an underscore, truncated or not.
C14_NoEdgeUnderscore ==
    (SanitizeDone /\ pf.out # <<>>)
    => pf.out[1] # "_" /\ pf.out[Len(pf.out)] # "_"

\* C15 (as claimed): _sanitize_filename applied to its own output, with the
\* same max_length, returns that output.
C15_SanitizeIdempotent ==
    (pf.fn = "_sanitize_filename" /\ pf.times = 2) => pf.out = pf.first

(***************************************************************************)
(* Claims about the URL rewrites (checked under SpecPure)                  *)
(***************************************************************************)

\* One rewrite has been applied to the input URL, and it is this one.
Rewritten(name) == pf.fn = "url_rewrites" /\ pf.applied = <<name>>

\* s with every atom a replaced by b.
WithAtomReplaced(s, a, b) == [i \in DOMAIN s |-> IF s[i] = a THEN b ELSE s[i]]

\* s holds '/blob/' and the host name.
IsBlobUrlOf(s, host) ==
    /\ \E i \in DOMAIN s : s[i] = host
    /\ \E i \in 1..(Len(s) - 2) : s[i] = "/" /\ s[i + 1] = "blob" /\ s[i + 2] = "/"

\* C16: _handle_github_url turns a URL that holds 'github.com' and '/blob/'
\* into the URL with 'github.com' replaced by 'raw.githubusercontent.com'
\* and '/blob/' by '/'; _handle_huggingface_url turns a URL that holds
\* 'huggingface.co' and '/blob/' into the URL with '/blob/' replaced by
\* '/resolve/'; each returns every other URL unchanged.
C16_HostRewrites ==
    /\ Rewritten("github")
       => pf.out =
            IF IsBlobUrlOf(pf.url, "github.com")
            THEN Replace(WithAtomReplaced(pf.url, "github.com",
                                          "raw.githubusercontent.com"),
                         <<"/", "blob", "/">>, <<"/">>)
            ELSE pf.url
    /\ Rewritten("huggingface")
       => pf.out =
            IF IsBlobUrlOf(pf.url, "huggingface.co")
            THEN Replace(pf.url, <<"/", "blob", "/">>, <<"/", "resolve", "/">>)
            ELSE pf.url

\* The docstring example of _handle_github_url has been rewritten.
C16_Witness ==
    Rewritten("github") /\ pf.url = UrlGithubFile /\ pf.out = UrlGithubRaw

\* C17 (as claimed): for every URL, _handle_github_url followed by
\* _handle_huggingface_url gives what _handle_huggingface_url followed by
\* _handle_github_url gives.
C17_HostRewritesCommute ==
    /\ (pf.fn = "url_rewrites" /\ pf.applied = <<"github", "huggingface">>)
       => pf.out = HandleGithubUrl(HandleHuggingfaceUrl(pf.url))
    /\ (pf.fn = "url_rewrites" /\ pf.applied = <<"huggingface", "github">>)
       => pf.out = HandleHuggingfaceUrl(HandleGithubUrl(pf.url))

(***************************************************************************)
(* Claims about the tracking parameter (checked under Spec)                *)
(***************************************************************************)

\* u holds '?utm_source=chatgpt.com' or '&utm_source=chatgpt.com'.
HasTracking(u) ==
    \E i \in 1..(Len(u) - 3) :
        /\ u[i] \in {"?", "&"}
        /\ u[i + 1] = "utm_source=chatgpt" /\ u[i + 2] = "." /\ u[i + 3] = "com"

\* The URL given to the download in progress.
InputUrl == call.urls[item]

\* C18 (as claimed): download strips the tracking parameter, first or later
\* query parameter, before any request: no URL it probes, fetches or
\* reports holds '?utm_source=chatgpt.com' or '&utm_source=chatgpt.com', and
\* an input URL without them is requested as it is (host rewrites aside).
C18_TrackingParameterStripped ==
    /\ \A i \in DOMAIN reqs : ~HasTracking(reqs[i].url)
    /\ \A i \in DOMAIN results : ~HasTracking(results[i].url)
    /\ (reqs # <<>> /\ ~HasTracking(InputUrl))
       => reqs[1].url = HandleHuggingfaceUrl(HandleGithubUrl(InputUrl))

(***************************************************************************)
(* Claims about landing pages (checked under SpecPure)                     *)
(***************************************************************************)

LandingDone == pf.fn = "_is_likely_landing_page" /\ pf.done

\* C19 (as claimed): _is_likely_landing_page returns false for every HTML
\* response whose body has 1,000,000 bytes or more, whatever its links; it
\* returns true only for a body below 1,000,000 bytes.
C19_LargeHtmlIsContent ==
    LandingDone
    => /\ pf.response.body.size >= 1000000 => pf.out = FALSE
       /\ pf.out = TRUE => pf.response.body.size < 1000000

FindDone == pf.fn = "_find_download_link" /\ pf.done

Points(matches, weight) == IF matches THEN weight ELSE 0

\* The score of a link by the table of weights: each pattern counts once,
\* when it matches the lower-cased absolute URL u or the lower-cased text t.
ScoreByTable(u, t) ==
    LET ends(x) == EndsWith(u, x) \/ EndsWith(t, x)
        holds(x) == Contains(u, x) \/ Contains(t, x)
    IN  Points(ends(<<".", "pdf">>), 10)
        + Points(holds(<<"download">>), 8)
        + Points(ends(<<".", "zip">>), 7)
        + Points(ends(<<".", "tar", ".", "gz">>), 7)
        + Points(ends(<<".", "csv">>), 6)
        + Points(ends(<<".", "json">>), 6)
        + Points(holds(<<"/", "raw", "/">>), 5)
        + Points(holds(<<"/", "blob", "/">>), 3)

\* C20: _find_download_link scores each anchor with an href by the table of
\* weights and returns the absolute URL of an anchor of maximal score; it
\* returns None exactly when every anchor scores 0.
C20_BestScoringLink ==
    FindDone
    => LET elems == pf.response.body.elems
           anchors == {i \in DOMAIN elems :
                          elems[i].tag = "a" /\ elems[i].href # None}
           abs(i) == UrlJoin(pf.url, elems[i].href)
           score(i) == ScoreByTable(Lower(abs(i)), Lower(elems[i].text))
       IN  /\ pf.out = None <=> \A i \in anchors : score(i) = 0
           /\ pf.out # None
              => \E i \in anchors :
                    /\ pf.out = abs(i)
                    /\ \A j \in anchors : score(j) <= score(i)

\* The page of the example: the .pdf link (18) has beaten the .zip link (7),
\* whichever comes first.
C20_Witness ==
    /\ FindDone
    /\ pf.response.body.elems =
         << Element("a", <<"x", ".", "zip">>, <<"get">>),
            Element("a", <<"paper", ".", "pdf">>, <<"Download">>) >>
    /\ ScoreByTable(Lower(UrlPaper), <<"download">>) = 18
    /\ ScoreByTable(Lower(UrlJoin(UrlPage, <<"x", ".", "zip">>)), <<"get">>) = 7
    /\ pf.out = UrlPaper

\* C21 (as claimed): among the anchors that share the top score,
\* _find_download_link returns the one that comes first in the document.
C21_FirstAmongTopScores ==
    (FindDone /\ pf.out # None)
    => LET elems == pf.response.body.elems
           anchors == {i \in DOMAIN elems :
                          elems[i].tag = "a" /\ elems[i].href # None}
           abs(i) == UrlJoin(pf.url, elems[i].href)
           score(i) == ScoreByTable(Lower(abs(i)), Lower(elems[i].text))
           top == {i \in anchors : \A j \in anchors : score(j) <= score(i)}
       IN  pf.out = abs(Min(top))

(***************************************************************************)
(* Claims about download_multiple's input validation (checked under Spec)  *)
(***************************************************************************)

\* download_multiple was given a contexts list of another length than urls.
MismatchedContexts ==
    /\ call.op = "download_multiple"
    /\ call.has_contexts
    /\ Len(call.contexts) # Len(call.urls)

\* download_multiple was called without contexts.
ContextsOmitted == call.op = "download_multiple" /\ ~call.has_contexts

\* What holds in every state of a batch call.
C22_FailsFast ==
    /\ (MismatchedContexts /\ pc # "call")
       => /\ pc = "done"
          /\ exc.type = "ValueError"
          /\ reqs = <<>> /\ results = <<>> /\ opened = {}
    /\ (ContextsOmitted /\ pc = "done") => Len(results) = Len(call.urls)
    /\ (ContextsOmitted /\ pc = "final_get")
       => StartsWith(dl_filename, FilenameStem(final_url, None))

\* No step of a mismatched call touches the network or the disk.
C22_NothingTouched ==
    MismatchedContexts => UNCHANGED <<dir_exists, files, reqs, opened>>

\* C22: with a contexts list of another length than urls, download_multiple
\* raises ValueError before any request is issued, any directory created or
\* any file written; with contexts omitted every URL is downloaded, each
\* with no context (its generated name starts with the stem of its URL).
C22_MismatchedContextsFailFast == []C22_FailsFast /\ [][C22_NothingTouched]_vars

\* download_multiple has raised ValueError for two URLs and three contexts.
C22_Witness ==
    /\ MismatchedContexts
    /\ Len(call.urls) = 2
    /\ pc = "done"
    /\ exc.type = "ValueError"

(***************************************************************************)
(* The agent's tools                                                       *)
(***************************************************************************)

\* execute_tool has ended, by returning or by raising.
Replied == tool # NoTool /\ reply # NoReply

\* The reply is the dictionary of ToolExecutionResult.to_dict.
Structured ==
    /\ reply.kind = "returned"
    /\ DOMAIN reply = {"kind", "success", "data", "message", "warnings", "metadata"}
    /\ reply.success \in BOOLEAN

\* C23: for every tool name and every argument mapping, a mapping without a
\* required argument or with an unexpected key included, execute_tool
\* returns a mapping with the keys success, data, message, warnings and
\* metadata and never raises; success is false on every failure path.
C23_AlwaysStructuredResult ==
    Replied => /\ Structured
               /\ (exc # NoExc \/ ~Binds(tool.name, tool.keys)) => ~reply.success

\* The tool name is none of the three.
UnknownTool == tool # NoTool /\ tool.name \notin ToolNames

C24_UnknownReply ==
    (UnknownTool /\ reply # NoReply)
    => /\ Structured
       /\ ~reply.success
       /\ reply.message.text = "Unknown tool"
       /\ reqs = <<>> /\ opened = {} /\ pc = "idle"

C24_NothingTouched ==
    UnknownTool => UNCHANGED <<dir_exists, files, reqs, opened>>

\* C24: execute_tool with a name other than download_content,
\* download_multiple and list_downloads returns a structured result with
\* success false and a message containing 'Unknown tool', for every
\* argument mapping, without raising, without any network request and
\* without touching the filesystem.
C24_UnknownToolIsStructuredFailure == []C24_UnknownReply /\ [][C24_NothingTouched]_vars

\* An unknown tool called with an unexpected key has been answered, in a
\* directory that holds files.
C24_Witness ==
    /\ UnknownTool
    /\ "bogus" \in tool.keys
    /\ reply # NoReply
    /\ ~reply.success
    /\ files # {}

\* list_downloads has been called with arguments that bind, and has ended.
ListDone ==
    /\ tool.name = "list_downloads"
    /\ Binds(tool.name, tool.keys)
    /\ reply # NoReply

\* The directory the listing is about: the argument, the default without one.
ListTarget ==
    IF "download_dir" \in tool.keys /\ Truthy(tool.download_dir)
    THEN tool.download_dir
    ELSE TargetDir

ListPattern == IF "pattern" \in tool.keys THEN tool.pattern ELSE <<"*">>

\* The regular files of the directory that match the pattern.
MatchingFiles ==
    {p \in files : InDir(p, ListTarget) /\ GlobMatches(PathName(p), ListPattern)}

\* The reply lists exactly the matching regular files, in ascending order.
ListsMatchingFiles ==
    /\ Structured
    /\ reply.success
    /\ reply.data.directory = ListTarget
    /\ reply.data.total = Len(reply.data.files)
    /\ {reply.data.files[i].path : i \in DOMAIN reply.data.files} = MatchingFiles
    /\ Len(reply.data.files) = Cardinality(MatchingFiles)
    /\ \A i \in DOMAIN reply.data.files :
          /\ reply.data.files[i].name = PathName(reply.data.files[i].path)
          /\ \A j \in DOMAIN reply.data.files :
                i < j => StrLess(reply.data.files[i].path, reply.data.files[j].path)

ListFails == Structured /\ ~reply.success

C25_NothingTouched ==
    tool.name = "list_downloads" => UNCHANGED <<dir_exists, files, reqs, opened>>

\* The claim as stated: success whenever the directory exists, whatever the
\* pattern.
C25_ListsWheneverDirectoryExists ==
    ListDone => IF DirExists(ListTarget) THEN ListsMatchingFiles ELSE ListFails

C25_ListingReply ==
    ListDone => IF DirExists(ListTarget) /\ GlobValid(ListPattern)
                THEN ListsMatchingFiles
                ELSE ListFails

\* C25: list_downloads returns success with data.directory, data.files and
\* data.total, the number of listed files, when the target directory (the
\* argument, or the engine default when the argument is missing or empty)
\* exists and the pattern is a relative, non-empty glob pattern (default
\* '*'); it lists only the regular files that match, in sorted order.  It
\* returns a failure result when the directory does not exist or the
\* pattern is empty or absolute.  In every case nothing on disk is created,
\* modified or deleted.
C25_ListDownloads == []C25_ListingReply /\ [][C25_NothingTouched]_vars

\* Two files and a subdirectory, all matching '*', listed as two files.
C25_Witness ==
    /\ ListDone
    /\ ListPattern = <<"*">>
    /\ tool.subdirs = {ArchiveDir}
    /\ files = {NotesFile, PaperFile}
    /\ reply.success
    /\ reply.data.total = 2

(***************************************************************************)
(* The order of the steps of download                                      *)
(***************************************************************************)

\* The position of a step in the claimed order; 0 outside download.
StepRank(p) ==
    CASE p = "start" -> 1
      [] p = "probe_get" -> 2
      [] p = "landing" -> 3
      [] p = "mkdir" -> 4
      [] p = "name" -> 5
      [] p = "final_get" -> 6
      [] p = "first_chunk" -> 7
      [] p = "ensure" -> 8
      [] p = "write" -> 9
      [] p \in {"returned", "raised"} -> 10
      [] OTHER -> 0

\* The requests with their methods and steps only.
RequestKinds == [i \in DOMAIN reqs |-> <<reqs[i].method, reqs[i].step>>]

\* The probe is over.
ProbeOver == StepRank(pc) \in 4..9 \/ pc = "returned"

\* The probe HEAD raised or returned an error status.
ProbeHeadFailed == reqs # <<>> /\ reqs[1].outcome \in {"raise", "err"}

ProbeHeadRaised == reqs # <<>> /\ reqs[1].outcome = "raise"

\* A probe GET follows the probe HEAD.
ProbeGetIssued == Len(reqs) >= 2 /\ RequestKinds[2] = <<"GET", "probe">>

\* The requests issued so far are a prefix of: probe HEAD, probe GET (if
\* any), filename HEAD (if any), final GET.
RequestsInOrder ==
    \E probe \in {<<<<"HEAD", "probe">>>>,
                   <<<<"HEAD", "probe">>, <<"GET", "probe">>>>} :
      \E name \in {<<>>, <<<<"HEAD", "name">>>>} :
        LET all == probe \o name \o <<<<"GET", "final">>>>
        IN  /\ Len(reqs) <= Len(all)
            /\ RequestKinds = SubSeq(all, 1, Len(reqs))

C26_StepState ==
    StepRank(pc) > 0
    => /\ RequestsInOrder
       /\ StepRank(pc) >= 2 => RequestKinds[1] = <<"HEAD", "probe">>
       /\ ProbeOver => (ProbeGetIssued <=> ProbeHeadFailed)
       /\ (StepRank(pc) \in 6..9 \/ pc = "returned")
            => ((\E i \in DOMAIN reqs : reqs[i].step = "name")
                  <=> call.filename = None)
       /\ (\E i \in DOMAIN reqs : reqs[i].step = "final") => dir_exists
       /\ opened # {} => StepRank(pc) = 10

\* Every step inside download moves forward, and a file is opened by the
\* step that follows the extension re-resolution only.
C26_StepForward ==
    /\ (StepRank(pc) > 0 /\ StepRank(pc') > 0 /\ pc # pc' /\ item' = item)
       => StepRank(pc') > StepRank(pc)
    /\ (opened' # opened /\ opened' # {}) => (pc = "write" /\ pre_name # None)

\* C26: in every run of download the steps happen in this order, none
\* repeated or revisited: URL normalization, probe HEAD (followed by one
\* probe GET when the HEAD failed or returned status 400 or above),
\* landing-page check, target-directory creation, filename HEAD (only
\* when the caller supplied no filename), final GET, read of the first
\* chunk, extension re-resolution, file open and write, return; the target
\* directory exists before the final GET and the file is opened only after
\* the extension re-resolution.
C26_StepsInOrder == []C26_StepState /\ [][C26_StepForward]_vars

(***************************************************************************)
(* Requests and files                                                      *)
(***************************************************************************)

\* A GitHub blob-view URL: 'github.com' together with '/blob/'.
IsGithubBlobView(u) == Contains(u, <<"github.com">>) /\ Contains(u, BlobSegment)

\* C27: every URL to which download issues an HTTP request (probe HEAD or
\* GET, filename HEAD, final GET) has had both host rewrites applied: no
\* request goes to a URL that contains 'github.com' together with '/blob/',
\* also when the URL was extracted from a landing page.
C27_NoRequestToBlobView ==
    \A i \in DOMAIN reqs :
        /\ ~IsGithubBlobView(reqs[i].url)
        /\ reqs[i].url = HandleHuggingfaceUrl(HandleGithubUrl(reqs[i].url))

\* The path lies inside the directory: below it, without a '..' component.
InsideDir(p, d) ==
    /\ StartsWith(p, d \o <<"/">>)
    /\ Len(p) > Len(d) + 1
    /\ \A i \in DOMAIN p : p[i] # ".."

\* C28: every file that download opens for writing lies inside the target
\* directory, whatever filename the caller supplies and whatever
\* Content-Disposition filename the server sends, names with '/' or '..'
\* and absolute paths included.
C28_OpenedInsideTargetDir == \A p \in opened : InsideDir(p, TargetDir)

\* The final GET raised or returned an error status.
FinalGetFailed ==
    /\ reqs # <<>>
    /\ reqs[Len(reqs)].step = "final"
    /\ reqs[Len(reqs)].outcome \in {"raise", "err"}

\* After a failed final GET the download has raised and has opened no
\* file: none was created or truncated.
C29_FailedWithoutFile ==
    (FinalGetFailed /\ StepRank(pc) > 0)
    => /\ pc = "raised"
       /\ exc.type = "RuntimeError"
       /\ opened = {}

\* Neither the final GET nor what follows its failure changes the files;
\* the directory is never removed.
C29_FilesKept ==
    /\ (pc = "final_get" \/ (pc = "raised" /\ FinalGetFailed)) => files' = files
    /\ dir_exists => dir_exists'

\* C29: if the final GET of download raises or returns an error status
\* before any body chunk is read, the download fails without creating,
\* truncating or modifying any file in the target directory (the directory
\* itself may have been created); a file that exists under the computed
\* name keeps its content.
C29_FailedGetLeavesFiles == []C29_FailedWithoutFile /\ [][C29_FilesKept]_vars

\* The final GET failed for a name under which an earlier download of the
\* batch wrote a file.
C29_Witness ==
    /\ FinalGetFailed
    /\ pc = "raised"
    /\ JoinPath(TargetDir, dl_filename) \in files
    /\ opened = {}
    /\ dir_exists

(***************************************************************************)
(* The download_multiple tool                                              *)
(***************************************************************************)

\* download_multiple has been called with arguments that bind, and has ended.
BatchToolDone ==
    /\ tool.name = "download_multiple"
    /\ Binds(tool.name, tool.keys)
    /\ reply # NoReply

\* The engine call raised.
EngineRaised == exc # NoExc

\* The items of the reply with a path.
WithPath == {i \in DOMAIN reply.data.results : reply.data.results[i].path # None}

\* C30: the result of the download_multiple tool satisfies data.total =
\* number of input URLs = length of data.results and data.successful +
\* data.failed = data.total, where successful counts the items with a path;
\* success is true whenever the engine call returns, also when every item
\* failed, and false only when the engine call raises.
C30_BatchCounts ==
    BatchToolDone
    => /\ Structured
       /\ reply.success <=> ~EngineRaised
       /\ reply.success
            => /\ reply.data.total = Len(tool.urls)
               /\ reply.data.total = Len(reply.data.results)
               /\ reply.data.successful = Cardinality(WithPath)
               /\ reply.data.successful + reply.data.failed = reply.data.total
       /\ EngineRaised => exc.type = "ValueError"

\* Two URLs, both failed: the tool still reports success.
C30_Witness ==
    /\ BatchToolDone
    /\ reply.success
    /\ reply.data.total = 2
    /\ reply.data.successful = 0
    /\ reply.data.failed = 2

=============================================================================
